---- MODULE Spec2Model ----
(***************************************************************************)
(* Hybrid retrieval core of the vectorstores repository:                   *)
(*   - Reciprocal Rank Fusion, combineResults (vector-store/rrf.ts)        *)
(*   - the query mode dispatch of LibSQLVectorStore and                    *)
(*     SupabaseVectorStore                                                 *)
(*   - the in-memory BM25 index (vector-store/bm25.ts)                     *)
(*   - VectorIndexRetriever.retrieveQuery, calculateQueryEmbedding and     *)
(*     batchEmbeddings                                                     *)
(*   - DuplicatesStrategy, MemoryFsPromises and the lazy schema setup of   *)
(*     LibSQLVectorStore                                                   *)
(* Scores are exact rationals <<numerator, denominator>> (denominator > 0).*)
(***************************************************************************)
EXTENDS Integers, Sequences, FiniteSets, TLC

VARIABLES
  rrfPc,          \* "call" before combineResults runs, "done" after it returned
  rrfIn,          \* arguments of combineResults
  rrfOut,         \* value returned by combineResults
  store,          \* which vector store the query is sent to
  query,          \* the VectorStoreQuery of the call
  pc,             \* position of the query() call
  initialized,    \* LibSQLVectorStore.initialized
  trace,          \* statements issued to the database / calls made, in order
  vecRes,         \* result of the vector sub-search
  ftsRes,         \* result of the full-text sub-search
  outcome,        \* how query() settled
  bmPc,           \* "new" before the BM25 constructor ran, "ready", "searched"
  bmNodes,        \* the nodes handed to the BM25 constructor
  bmOpts,         \* the options handed to the BM25 constructor
  bmIndex,        \* the private fields of the BM25 object
  bmCall,         \* arguments of the last BM25.search call
  bmOut,          \* value returned by the last BM25.search call
  bmFirst,        \* arguments and result of the first BM25.search call
  retPc,          \* position of VectorIndexRetriever.retrieveQuery
  retOpts,        \* queryMode and alpha; whether an embedding model exists
  retMessage,     \* the content items of the query and their text
  retItem,        \* index of the content item the loop is at
  retEmbedded,    \* the items handed to getQueryEmbedding, in order
  retSent,        \* the queries handed to vectorStore.query, in order
  qePc,           \* position of calculateQueryEmbedding
  qeItem,         \* the content item to embed
  qeFuncs,        \* which embedding functions the map holds
  qeInvoked,      \* embedding functions invoked, with their arguments
  qeOutcome,      \* how calculateQueryEmbedding settled
  dupPc,          \* position of the DuplicatesStrategy transform
  dupNodes,       \* the nodes handed to the transform
  dupStore,       \* reference document ids that exist in the vector store
  dupIdx,         \* index of the node the loop is at
  dupSeen,        \* seenIds
  dupRun,         \* nodesToRun
  fsFiles,        \* keys of MemoryFsPromises.files, as lists of path parts
  fsDirs,         \* MemoryFsPromises.dirs; <<>> is the root
  fsMtimes,       \* keys of MemoryFsPromises.mtimes
  fsResult,       \* how the last call settled: "ok" or an error code
  lsInitialized,  \* LibSQLVectorStore.initialized of the shared instance
  lsCalls,        \* the methods called on the instance, one per caller
  lsPc,           \* position of each call
  lsSchemaRuns,   \* number of checkSchema executions started
  bePc,           \* position of batchEmbeddings
  beValues,       \* the values to embed
  beChunkSize,    \* chunkSize
  beI,            \* 1-based index of the value the loop pushed last
  beCurBatch,     \* curBatch
  beBatches,      \* the batches embedFunc was called with, in order
  beResult        \* resultEmbeddings

rrfVars == <<rrfPc, rrfIn, rrfOut>>
queryVars == <<store, query, pc, initialized, trace, vecRes, ftsRes, outcome>>
bm25Vars == <<bmPc, bmNodes, bmOpts, bmIndex, bmCall, bmOut, bmFirst>>
retrieverVars == <<retPc, retOpts, retMessage, retItem, retEmbedded, retSent>>
embeddingVars == <<qePc, qeItem, qeFuncs, qeInvoked, qeOutcome>>
strategyVars == <<dupPc, dupNodes, dupStore, dupIdx, dupSeen, dupRun>>
fsVars == <<fsFiles, fsDirs, fsMtimes, fsResult>>
storeVars == <<lsInitialized, lsCalls, lsPc, lsSchemaRuns>>
batchVars == <<bePc, beValues, beChunkSize, beI, beCurBatch, beBatches,
               beResult>>
vars == <<rrfPc, rrfIn, rrfOut, store, query, pc, initialized, trace, vecRes,
          ftsRes, outcome, bmPc, bmNodes, bmOpts, bmIndex, bmCall, bmOut,
          bmFirst, retPc, retOpts, retMessage, retItem, retEmbedded, retSent,
          qePc, qeItem, qeFuncs, qeInvoked, qeOutcome, dupPc, dupNodes,
          dupStore, dupIdx, dupSeen, dupRun, fsFiles, fsDirs, fsMtimes,
          fsResult, lsInitialized, lsCalls, lsPc, lsSchemaRuns, bePc,
          beValues, beChunkSize, beI, beCurBatch, beBatches, beResult>>

\* the variables of the other components, which an action leaves alone
componentVars == <<retrieverVars, embeddingVars, strategyVars, fsVars,
                   storeVars, batchVars>>
retrieverFrame == <<rrfVars, queryVars, bm25Vars, embeddingVars,
                    strategyVars, fsVars, storeVars, batchVars>>
embeddingFrame == <<rrfVars, queryVars, bm25Vars, retrieverVars,
                    strategyVars, fsVars, storeVars, batchVars>>
strategyFrame == <<rrfVars, queryVars, bm25Vars, retrieverVars,
                   embeddingVars, fsVars, storeVars, batchVars>>
fsFrame == <<rrfVars, queryVars, bm25Vars, retrieverVars, embeddingVars,
             strategyVars, storeVars, batchVars>>
storeFrame == <<rrfVars, queryVars, bm25Vars, retrieverVars, embeddingVars,
                strategyVars, fsVars, batchVars>>
batchFrame == <<rrfVars, queryVars, bm25Vars, retrieverVars, embeddingVars,
                strategyVars, fsVars, storeVars>>

----------------------------------------------------------------------------
(* Bounds *)

MaxLen == 2          \* longest input result list of combineResults
MaxTopK == 3         \* largest similarityTopK
MaxBoostRank == 62   \* deepest rank in the dual-presence scenario

----------------------------------------------------------------------------
(* Exact rational arithmetic *)

Min(a, b) == IF a <= b THEN a ELSE b

RECURSIVE Gcd(_, _)
Gcd(a, b) == IF b = 0 THEN a ELSE Gcd(b, a % b)

\* lowest terms
FNorm(x) ==
  LET g == Gcd(x[1], x[2]) IN IF g = 0 THEN x ELSE <<x[1] \div g, x[2] \div g>>

FZero == <<0, 1>>
FOne == <<1, 1>>
FAdd(x, y) == FNorm(<<x[1] * y[2] + y[1] * x[2], x[2] * y[2]>>)
FSub(x, y) == FNorm(<<x[1] * y[2] - y[1] * x[2], x[2] * y[2]>>)
FMul(x, y) == FNorm(<<x[1] * y[1], x[2] * y[2]>>)
FDivInt(x, n) == FNorm(<<x[1], x[2] * n>>)

\* sign of a/b - c/d for a, c >= 0 and b, d > 0, by continued fractions (no
\* product is formed)
RECURSIVE FCmp(_, _, _, _)
FCmp(a, b, c, d) ==
  LET q1 == a \div b
      q2 == c \div d
      r1 == a % b
      r2 == c % d
  IN IF q1 # q2 THEN (IF q1 < q2 THEN -1 ELSE 1)
     ELSE IF r1 = 0 /\ r2 = 0 THEN 0
     ELSE IF r1 = 0 THEN -1
     ELSE IF r2 = 0 THEN 1
     ELSE FCmp(d, r2, b, r1)

FEq(x, y) == FCmp(x[1], x[2], y[1], y[2]) = 0
FLt(x, y) == FCmp(x[1], x[2], y[1], y[2]) < 0
FLe(x, y) == FCmp(x[1], x[2], y[1], y[2]) <= 0

----------------------------------------------------------------------------
(* Reciprocal Rank Fusion *)

RRF_K_m == 60 - 1

RRF_K == 60

\* rank taken 0-indexed
rrfScore_m(rank) == <<1, RRF_K + rank - 1>>

rrfScore(rank) == <<1, RRF_K + rank>>

\* Document ids.  "1" and "2" are canonical array indices: a JavaScript
\* object enumerates such keys first, in ascending numeric order.
Ids == {"1", "2", "a", "b"}
ArrayIndexKeys == <<"1", "2">>
IsArrayIndex(id) == \E k \in 1..Len(ArrayIndexKeys) : ArrayIndexKeys[k] = id

Alphas == {<<0, 1>>, <<1, 4>>, <<1, 2>>, <<3, 4>>, <<1, 1>>}

\* VectorStoreQueryResult; nodes is optional
MkResult(ids, sims, hasNodes, side) ==
  [ids |-> ids, similarities |-> sims, hasNodes |-> hasNodes,
   nodes |-> IF hasNodes
             THEN [i \in 1..Len(ids) |-> [id_ |-> ids[i], from |-> side]]
             ELSE <<>>]

\* results.nodes?.[i] : <<node>> when defined, <<>> when undefined
NodeAt(res, i) ==
  IF res.hasNodes /\ i <= Len(res.nodes) THEN <<res.nodes[i]>> ELSE <<>>

\* combinedScores[id] : <<entry>> when set, <<>> otherwise
Lookup(acc, id) == SelectSeq(acc, LAMBDA e : e.id = id)

\* the indices of S in increasing order
Ascending(n, S) == SelectSeq([i \in 1..n |-> i], LAMBDA i : i \in S)

\* fusion by raw score instead of rank
VectorContribution_m(res, alpha, i) == FMul(<<res.similarities[i], 10>>, alpha)

VectorContribution(res, alpha, i) == FMul(rrfScore(i), alpha)

\* weight alpha instead of 1 - alpha
Bm25Contribution_m(res, alpha, i) == FMul(rrfScore(i), alpha)

Bm25Contribution(res, alpha, i) == FMul(rrfScore(i), FSub(FOne, alpha))

\* combinedScores after vectorResults.ids.forEach.  Iteration i assigns
\* combinedScores[id] when its node is defined; a key takes its place in the
\* object at its first assignment and holds the value of its last one.
VectorPass(res, alpha) ==
  LET assigns == {i \in 1..Len(res.ids) : NodeAt(res, i) # <<>>}
      same(i) == {j \in assigns : res.ids[j] = res.ids[i]}
      creates == {i \in assigns : \A j \in same(i) : i <= j}
      last(i) == CHOOSE j \in same(i) : \A k \in same(i) : k <= j
      order == Ascending(Len(res.ids), creates)
  IN [n \in 1..Len(order) |->
        [score |-> VectorContribution(res, alpha, last(order[n])),
         node |-> res.nodes[last(order[n])],
         id |-> res.ids[order[n]]]]

\* existing.score += rrfScore(rank) * (1 - alpha), once per iteration in S
RECURSIVE AddContributions(_, _, _, _)
AddContributions(res, alpha, S, score) ==
  IF S = {} THEN score
  ELSE LET i == CHOOSE k \in S : \A l \in S : k <= l
       IN AddContributions(res, alpha, S \ {i},
                           FAdd(score, Bm25Contribution(res, alpha, i)))

\* combinedScores after bm25Results.ids.forEach, started from acc.  An
\* iteration whose id is a key adds its contribution to that key; otherwise
\* it creates the key when its node is defined and does nothing when not.
Bm25Pass(res, alpha, acc) ==
  LET n == Len(res.ids)
      same(id, from) == {i \in from..n : res.ids[i] = id}
      creates == {i \in 1..n :
                    /\ Lookup(acc, res.ids[i]) = <<>>
                    /\ NodeAt(res, i) # <<>>
                    /\ \A j \in 1..(i - 1) :
                         res.ids[j] = res.ids[i] => NodeAt(res, j) = <<>>}
      order == Ascending(n, creates)
      existing == [k \in 1..Len(acc) |->
                     [acc[k] EXCEPT !.score =
                        AddContributions(res, alpha, same(acc[k].id, 1), @)]]
      created == [k \in 1..Len(order) |->
                    [score |-> AddContributions(res, alpha,
                                 same(res.ids[order[k]], order[k] + 1),
                                 Bm25Contribution(res, alpha, order[k])),
                     node |-> res.nodes[order[k]],
                     id |-> res.ids[order[k]]]]
  IN existing \o created

\* Object.values: array-index keys ascending, then the rest in insertion order
ObjectValues(acc) ==
  LET idx == [k \in 1..Len(ArrayIndexKeys) |-> Lookup(acc, ArrayIndexKeys[k])]
      RECURSIVE Cat(_)
      Cat(k) == IF k > Len(idx) THEN <<>> ELSE idx[k] \o Cat(k + 1)
  IN Cat(1) \o SelectSeq(acc, LAMBDA e : ~IsArrayIndex(e.id))

\* leaves the array as it is
SortDesc_m(s) == s

\* Array.prototype.sort((a, b) => b.score - a.score): the sort is stable, so
\* s[i] lands after every element with a strictly larger score and after
\* the elements of equal score that precede it in s
SortDesc(s) ==
  LET n == Len(s)
      pos == SubSeq([i \in 1..n |->
               1 + Cardinality({j \in 1..n :
                     \/ FLt(s[i].score, s[j].score)
                     \/ (j < i /\ FEq(s[i].score, s[j].score))})], 1, n)
  IN [p \in 1..n |-> s[CHOOSE i \in 1..n : pos[i] = p]]

\* no truncation
Slice_m(s, n) == s

\* .slice(0, n)
Slice(s, n) == SubSeq(s, 1, Min(n, Len(s)))

combineResults(vectorResults, bm25Results, alpha, similarityTopK) ==
  LET afterVector ==
        VectorPass(vectorResults, alpha)
      combinedScores ==
        Bm25Pass(bm25Results, alpha, afterVector)
      sortedResults ==
        Slice(SortDesc(ObjectValues(combinedScores)), similarityTopK)
  IN [ids |-> [i \in 1..Len(sortedResults) |-> sortedResults[i].id],
      similarities |-> [i \in 1..Len(sortedResults) |-> sortedResults[i].score],
      nodes |-> [i \in 1..Len(sortedResults) |-> sortedResults[i].node]]

----------------------------------------------------------------------------
(* Inputs of combineResults *)

\* raw similarity values of a result list: distinct and decreasing, as a
\* vector or FTS5 search returns them, or constant, as SupabaseVectorStore's
\* bm25Search returns them (line 240)
RankedSims(n) == [i \in 1..n |-> 10 - i]
FlatSims(n) == [i \in 1..n |-> 1]
SimsOf(n) == {RankedSims(n), FlatSims(n)}

\* id lists without repetition (ids are primary keys of the stores)
IdLists(n) ==
  {s \in UNION {[1..k -> Ids] : k \in 0..n} :
     \A i, j \in 1..Len(s) : i # j => s[i] # s[j]}

\* result lists as the stores of the repository build them: one node per id
ResultLists(side) ==
  UNION {{MkResult(ids, sims, TRUE, side) : sims \in SimsOf(Len(ids))} :
         ids \in IdLists(MaxLen)}

AnyIds == {"1", "a", "b"}

\* every value of type VectorStoreQueryResult: ids may repeat, nodes may be
\* absent
AnyResultLists(side) ==
  UNION {{MkResult(ids, sims, hasNodes, side) :
            sims \in SimsOf(Len(ids)), hasNodes \in BOOLEAN} :
         ids \in UNION {[1..k -> AnyIds] : k \in 0..MaxLen}}

NoResult == [ids |-> <<>>, similarities |-> <<>>, nodes |-> <<>>]

IdleRRF ==
  /\ rrfPc = "idle"
  /\ rrfIn = [vectorResults |-> MkResult(<<>>, <<>>, TRUE, "vector"),
              bm25Results |-> MkResult(<<>>, <<>>, TRUE, "bm25"),
              alpha |-> <<1, 2>>, similarityTopK |-> 1]
  /\ rrfOut = NoResult

NoQuery ==
  [mode |-> "default", queryStr |-> "absent", queryEmbedding |-> "absent",
   similarityTopK |-> 1, alpha |-> <<>>, hybridPrefetch |-> <<>>]

IdleQuery ==
  /\ store = "none"
  /\ query = NoQuery
  /\ pc = "idle"
  /\ initialized = FALSE
  /\ trace = <<>>
  /\ vecRes = <<>>
  /\ ftsRes = <<>>
  /\ outcome = [kind |-> "pending", error |-> "", result |-> NoResult]

\* field initialisers of class BM25
NoIndex ==
  [k1 |-> <<0, 1>>, b |-> <<0, 1>>, avgdl |-> <<0, 1>>, docCount |-> 0,
   docLengths |-> <<>>, termFreqs |-> <<>>, docFreqs |-> <<>>]

NoSearch == [query |-> <<>>, topK |-> 0]

NoFirst == [call |-> NoSearch, out |-> <<>>, made |-> FALSE]

IdleBM25 ==
  /\ bmPc = "idle"
  /\ bmNodes = <<>>
  /\ bmOpts = [k1 |-> <<>>, b |-> <<>>]
  /\ bmIndex = NoIndex
  /\ bmCall = NoSearch
  /\ bmOut = <<>>
  /\ bmFirst = NoFirst

\* a VectorIndexRetriever that has not been asked anything
NoMessage == [items |-> <<>>, text |-> ""]

IdleRetriever ==
  /\ retPc = "idle"
  /\ retOpts = [mode |-> "default", embedModel |-> FALSE, alpha |-> <<>>]
  /\ retMessage = NoMessage
  /\ retItem = 0
  /\ retEmbedded = <<>>
  /\ retSent = <<>>

\* no calculateQueryEmbedding call
IdleQueryEmbedding ==
  /\ qePc = "idle"
  /\ qeItem = [type |-> "text", keys |-> {}, payload |-> ""]
  /\ qeFuncs = [text |-> FALSE, image |-> FALSE]
  /\ qeInvoked = <<>>
  /\ qeOutcome = [kind |-> "pending", value |-> ""]

\* no DuplicatesStrategy call
IdleStrategy ==
  /\ dupPc = "idle"
  /\ dupNodes = <<>>
  /\ dupStore = {}
  /\ dupIdx = 0
  /\ dupSeen = {}
  /\ dupRun = <<>>

\* new MemoryFsPromises(): no file, the root directory, no mtime
IdleFs ==
  /\ fsFiles = {}
  /\ fsDirs = {<<>>}
  /\ fsMtimes = {}
  /\ fsResult = "none"

\* a LibSQLVectorStore on which no concurrent calls are made
IdleStore ==
  /\ lsInitialized = FALSE
  /\ lsCalls = <<>>
  /\ lsPc = <<>>
  /\ lsSchemaRuns = 0

\* no batchEmbeddings call
IdleBatch ==
  /\ bePc = "idle"
  /\ beValues = <<>>
  /\ beChunkSize = 1
  /\ beI = 0
  /\ beCurBatch = <<>>
  /\ beBatches = <<>>
  /\ beResult = <<>>

\* every other component at rest
IdleComponents ==
  /\ IdleRetriever
  /\ IdleQueryEmbedding
  /\ IdleStrategy
  /\ IdleFs
  /\ IdleStore
  /\ IdleBatch

CallCombineResults ==
  /\ rrfPc = "call"
  /\ rrfOut' = combineResults(rrfIn.vectorResults, rrfIn.bm25Results,
                              rrfIn.alpha, rrfIn.similarityTopK)
  /\ rrfPc' = "done"
  /\ UNCHANGED rrfIn
  /\ UNCHANGED queryVars
  /\ UNCHANGED bm25Vars
  /\ UNCHANGED componentVars

Init ==
  /\ rrfPc = "call"
  /\ rrfIn \in [vectorResults : ResultLists("vector"),
                bm25Results : ResultLists("bm25"),
                alpha : Alphas, similarityTopK : 1..MaxTopK]
  /\ rrfOut = NoResult
  /\ IdleQuery
  /\ IdleBM25
  /\ IdleComponents

Next == CallCombineResults

Spec == Init /\ [][Next]_vars

InitAny ==
  /\ rrfPc = "call"
  /\ rrfIn \in [vectorResults : AnyResultLists("vector"),
                bm25Results : AnyResultLists("bm25"),
                alpha : Alphas, similarityTopK : 1..MaxTopK]
  /\ rrfOut = NoResult
  /\ IdleQuery
  /\ IdleBM25
  /\ IdleComponents

SpecAny == InitAny /\ [][Next]_vars

----------------------------------------------------------------------------
(* The dual-presence scenario: one document at rank r of both lists, every *)
(* other document in one list only                                         *)

FillerIds(prefix, n) == [j \in 1..n |-> prefix \o ToString(j)]

BoostList(prefix, r, side) ==
  MkResult(Append(FillerIds(prefix, r - 1), "x"), FlatSims(r), TRUE, side)

InitBoost ==
  /\ rrfPc = "call"
  /\ rrfIn \in {[vectorResults |-> BoostList("v", r, "vector"),
                 bm25Results |-> BoostList("b", r, "bm25"),
                 alpha |-> a, similarityTopK |-> k] :
                  r \in 1..MaxBoostRank, a \in Alphas, k \in 1..MaxTopK}
  /\ rrfOut = NoResult
  /\ IdleQuery
  /\ IdleBM25
  /\ IdleComponents

SpecBoost == InitBoost /\ [][Next]_vars

----------------------------------------------------------------------------
(* Properties of combineResults *)

\* 1-indexed position of id in ids, 0 when absent
RankIn(ids, id) ==
  IF \E i \in 1..Len(ids) : ids[i] = id
  THEN CHOOSE i \in 1..Len(ids) : ids[i] = id
  ELSE 0

\* weight / (60 + rank), 0 when the id is not in the list
RankTerm(weight, ids, id) ==
  IF RankIn(ids, id) = 0 THEN FZero
  ELSE FDivInt(weight, RRF_K + RankIn(ids, id))

NoRepeats(ids) == \A i, j \in 1..Len(ids) : i # j => ids[i] # ids[j]

EveryIdHasNode(res) == \A i \in 1..Len(res.ids) : NodeAt(res, i) # <<>>

OutIdx == 1..Len(rrfOut.ids)
VIds == rrfIn.vectorResults.ids
BIds == rrfIn.bm25Results.ids

\* C1: every returned id's similarity is alpha/(60+rv) + (1-alpha)/(60+rl),
\* rv and rl its 1-indexed positions in the vector and BM25 id lists, a term
\* being 0 when the id is absent from that list (lists without repeated ids,
\* every id with a node).
C1_ScoreFormula ==
  (rrfPc = "done" /\ NoRepeats(VIds) /\ NoRepeats(BIds)
                  /\ EveryIdHasNode(rrfIn.vectorResults)
                  /\ EveryIdHasNode(rrfIn.bm25Results)) =>
    \A i \in OutIdx :
      FEq(rrfOut.similarities[i],
          FAdd(RankTerm(rrfIn.alpha, VIds, rrfOut.ids[i]),
               RankTerm(FSub(FOne, rrfIn.alpha), BIds, rrfOut.ids[i])))

\* a fused result holding an id of both lists, a vector-only id and a
\* BM25-only id
C1_Witness ==
  /\ rrfPc = "done"
  /\ EveryIdHasNode(rrfIn.vectorResults)
  /\ EveryIdHasNode(rrfIn.bm25Results)
  /\ \E i, j, k \in OutIdx :
       /\ RankIn(VIds, rrfOut.ids[i]) = 2 /\ RankIn(BIds, rrfOut.ids[i]) = 1
       /\ RankIn(VIds, rrfOut.ids[j]) = 1 /\ RankIn(BIds, rrfOut.ids[j]) = 0
       /\ RankIn(VIds, rrfOut.ids[k]) = 0 /\ RankIn(BIds, rrfOut.ids[k]) = 2

\* C2: for any two input lists, alpha in [0,1] and topK >= 1, the returned
\* ids, similarities and nodes have the same length, at most topK, and the
\* similarities are non-increasing.
C2_TruncatedSorted ==
  rrfPc = "done" =>
    /\ Len(rrfOut.ids) = Len(rrfOut.similarities)
    /\ Len(rrfOut.ids) = Len(rrfOut.nodes)
    /\ Len(rrfOut.ids) <= rrfIn.similarityTopK
    /\ \A i \in OutIdx :
         i + 1 \in OutIdx =>
           FLe(rrfOut.similarities[i + 1], rrfOut.similarities[i])

\* more candidates than topK, and the kept ones were reordered by the sort
C2_Witness ==
  /\ rrfPc = "done"
  /\ Cardinality({VIds[i] : i \in 1..Len(VIds)}
                 \cup {BIds[i] : i \in 1..Len(BIds)}) > rrfIn.similarityTopK
  /\ EveryIdHasNode(rrfIn.vectorResults)
  /\ EveryIdHasNode(rrfIn.bm25Results)
  /\ Len(rrfOut.ids) = rrfIn.similarityTopK
  /\ Len(rrfOut.ids) >= 2
  /\ RankIn(VIds, rrfOut.ids[1]) = 2
  /\ FLt(rrfOut.similarities[2], rrfOut.similarities[1])

\* C3: the output depends only on the order of the ids, on alpha and on
\* topK: replacing the raw similarities of either input list by any other
\* values gives the identical output.
C3_RankOnly ==
  rrfPc = "done" =>
    \A sv \in SimsOf(Len(VIds)), sb \in SimsOf(Len(BIds)) :
      combineResults([rrfIn.vectorResults EXCEPT !.similarities = sv],
                     [rrfIn.bm25Results EXCEPT !.similarities = sb],
                     rrfIn.alpha, rrfIn.similarityTopK) = rrfOut

\* a fused result of two lists whose raw similarities could have differed
C3_Witness ==
  /\ rrfPc = "done"
  /\ Len(rrfOut.ids) >= 2
  /\ Len(VIds) >= 2 /\ Len(BIds) >= 2
  /\ rrfIn.vectorResults.similarities = RankedSims(Len(VIds))
  /\ rrfIn.bm25Results.similarities = FlatSims(Len(BIds))
  /\ rrfIn.alpha = <<1, 2>>

\* score combineResults gives a document that is at rank 1 of one list and
\* absent from the other, alpha = 0.5
SingleRank1Score ==
  combineResults(MkResult(<<"y">>, FlatSims(1), TRUE, "vector"),
                 MkResult(<<>>, <<>>, TRUE, "bm25"),
                 <<1, 2>>, 1).similarities[1]

PureOrdering(first, other) ==
  LET n == Min(rrfIn.similarityTopK, Len(first))
  IN /\ Len(rrfOut.ids) >= n
     /\ SubSeq(rrfOut.ids, 1, n) = SubSeq(first, 1, n)
     /\ \A i \in OutIdx :
          i > n => /\ RankIn(first, rrfOut.ids[i]) = 0
                   /\ RankIn(other, rrfOut.ids[i]) > 0
                   /\ FEq(rrfOut.similarities[i], FZero)

----------------------------------------------------------------------------
(* Query mode dispatch: LibSQLVectorStore.query and SupabaseVectorStore.query*)

Stores == {"libsql", "supabase"}

\* VectorStoreQueryMode values sent by callers; "mmr" stands for the modes
\* neither store has a branch for
Modes == {"default", "bm25", "hybrid", "mmr"}

\* query.queryStr is undefined, "" or a text; query.queryEmbedding is
\* undefined, [] or a vector
QueryStrs == {"absent", "empty", "text"}
QueryEmbeddings == {"absent", "empty", "vector"}

\* optional fields: <<>> when undefined, <<value>> when given
Queries ==
  [mode : Modes, queryStr : QueryStrs, queryEmbedding : QueryEmbeddings,
   similarityTopK : 1..MaxTopK,
   alpha : {<<>>, <<<<1, 4>>>>, <<<<1, 1>>>>},
   hybridPrefetch : {<<>>, <<1>>, <<MaxTopK>>}]

DEFAULT_ALPHA == <<1, 2>>

\* !query.queryStr
QueryStrMissing(q) == q.queryStr \in {"absent", "empty"}

\* libsql: !(query.queryEmbedding ?? []).length ; supabase: !query.queryEmbedding
EmbeddingMissing(st, q) ==
  IF st = "libsql" THEN q.queryEmbedding \in {"absent", "empty"}
  ELSE q.queryEmbedding = "absent"

\* which private search query() hands the query to
SelectedSearch(st, q) ==
  IF q.mode = "bm25" THEN "bm25Search"
  ELSE IF q.mode = "hybrid" THEN "hybridSearch"
  ELSE "vectorSearch"

HybridAlpha_m(q) == DEFAULT_ALPHA

\* query.alpha ?? 0.5
HybridAlpha(q) == IF q.alpha = <<>> THEN DEFAULT_ALPHA ELSE q.alpha[1]

\* similarityTopK of the two sub-queries of a hybrid query
\* libsql: query.hybridPrefetch ?? max * 5 ; supabase: the query is passed on
SubSearchTopK(st, q) ==
  IF st = "libsql"
  THEN IF q.hybridPrefetch = <<>> THEN q.similarityTopK * 5
       ELSE q.hybridPrefetch[1]
  ELSE q.similarityTopK

\* similarityTopK the running sub-search was called with
SearchTopK(st, q) ==
  IF q.mode = "hybrid" THEN SubSearchTopK(st, q) ELSE q.similarityTopK

\* precondition checks of hybridSearch (libsql); supabase has none of its own
HybridPrecheck(st, q) ==
  IF st = "libsql" /\ EmbeddingMissing(st, q)
  THEN "queryEmbedding is required for HYBRID mode"
  ELSE IF st = "libsql" /\ QueryStrMissing(q)
  THEN "queryStr is required for HYBRID mode"
  ELSE "ok"

\* vectorSearch up to its database call: "issue" the statement, "empty"
\* (return an empty result) or throw the error named
VectorSearchStart(st, q) ==
  IF EmbeddingMissing(st, q)
  THEN IF st = "libsql" THEN "empty" ELSE "Query embedding is required"
  ELSE "issue"

\* bm25Search up to its database call
Bm25SearchStart(st, q) ==
  IF QueryStrMissing(q)
  THEN IF st = "libsql" THEN "queryStr is required for BM25 mode"
       ELSE "Query string is required for BM25 search"
  ELSE "issue"

\* what a failed database call turns into
VectorFailure(st) ==
  IF st = "libsql" THEN "throw: database error"
  ELSE "throw: Error querying vector store"

Bm25Failure(st) ==
  IF st = "libsql" THEN "throw: BM25 search failed"
  ELSE "throw: Error querying vector store"

Event(op, k, alpha) == [op |-> op, k |-> k, alpha |-> alpha]

Pending == [kind |-> "pending", error |-> "", result |-> NoResult]
Failed(msg) == [kind |-> "error", error |-> msg, result |-> NoResult]
Returned(res) ==
  [kind |-> "result", error |-> "",
   result |-> [ids |-> res.ids, similarities |-> res.similarities,
               nodes |-> res.nodes]]

\* rows the database answers a statement with: at most k rows, distinct ids
DbRows(k) == {Slice(ids, k) : ids \in IdLists(MaxLen)}

\* mapVectorResult: similarity = 1 - distance, best first
VectorResultOf(st, rows) == MkResult(rows, RankedSims(Len(rows)), TRUE, "vector")

\* mapBm25Result (libsql: |bm25 score|) ; supabase: every similarity is 1.0
Bm25ResultOf(st, rows) ==
  MkResult(rows,
           IF st = "libsql" THEN RankedSims(Len(rows)) ELSE FlatSims(Len(rows)),
           TRUE, "bm25")

InitQuery ==
  /\ store \in Stores
  /\ query \in Queries
  /\ pc = "start"
  /\ initialized \in (IF store = "libsql" THEN BOOLEAN ELSE {FALSE})
  /\ trace = <<>>
  /\ vecRes = <<>>
  /\ ftsRes = <<>>
  /\ outcome = Pending
  /\ IdleRRF
  /\ IdleBM25
  /\ IdleComponents

Finish(o) ==
  /\ outcome' = o
  /\ pc' = "done"

\* bm25Search called: check queryStr, then send the full-text statement
StartBm25(tr) ==
  IF Bm25SearchStart(store, query) = "issue"
  THEN /\ trace' = Append(tr, Event("fts", SearchTopK(store, query), <<>>))
       /\ pc' = "awaitFts"
       /\ UNCHANGED outcome
  ELSE /\ trace' = tr
       /\ Finish(Failed(Bm25SearchStart(store, query)))

\* vectorSearch called: check queryEmbedding, then send the vector statement
StartVector(tr) ==
  IF VectorSearchStart(store, query) = "issue"
  THEN /\ trace' = Append(tr, Event("vector", SearchTopK(store, query), <<>>))
       /\ pc' = "awaitVector"
       /\ UNCHANGED outcome
  ELSE IF VectorSearchStart(store, query) = "empty"
  THEN /\ trace' = tr
       /\ Finish(Returned(NoResult))
  ELSE /\ trace' = tr
       /\ Finish(Failed(VectorSearchStart(store, query)))

\* libsql: await this.ensureInitialized(), up to the first statement of
\* checkSchema
EnsureInitialized ==
  /\ pc = "start"
  /\ store = "libsql"
  /\ IF initialized
     THEN pc' = "dispatch" /\ UNCHANGED trace
     ELSE /\ pc' = "awaitSchema"
          /\ trace' = Append(trace, Event("checkSchema", 0, <<>>))
  /\ UNCHANGED <<store, query, initialized, vecRes, ftsRes, outcome>>
  /\ UNCHANGED rrfVars
  /\ UNCHANGED bm25Vars
  /\ UNCHANGED componentVars

\* CREATE TABLE succeeded (the later statements of checkSchema swallow
\* their errors)
SchemaReady ==
  /\ pc = "awaitSchema"
  /\ initialized' = TRUE
  /\ pc' = "dispatch"
  /\ UNCHANGED <<store, query, trace, vecRes, ftsRes, outcome>>
  /\ UNCHANGED rrfVars
  /\ UNCHANGED bm25Vars
  /\ UNCHANGED componentVars

\* CREATE TABLE failed: query() rejects
SchemaFails ==
  /\ pc = "awaitSchema"
  /\ Finish(Failed("throw: database error"))
  /\ UNCHANGED <<store, query, initialized, trace, vecRes, ftsRes>>
  /\ UNCHANGED rrfVars
  /\ UNCHANGED bm25Vars
  /\ UNCHANGED componentVars

\* the mode branch of query(), run up to the first database call
Dispatch ==
  /\ \/ pc = "dispatch"
     \/ pc = "start" /\ store = "supabase"
  /\ IF SelectedSearch(store, query) = "bm25Search" THEN StartBm25(trace)
     ELSE IF SelectedSearch(store, query) = "hybridSearch"
     THEN IF HybridPrecheck(store, query) = "ok"
          THEN StartVector(trace)
          ELSE trace' = trace /\ Finish(Failed(HybridPrecheck(store, query)))
     ELSE StartVector(trace)
  /\ UNCHANGED <<store, query, initialized, vecRes, ftsRes>>
  /\ UNCHANGED rrfVars
  /\ UNCHANGED bm25Vars
  /\ UNCHANGED componentVars

\* the vector statement returned rows; a hybrid query goes on to bm25Search
VectorReturns ==
  /\ pc = "awaitVector"
  /\ \E rows \in DbRows(SearchTopK(store, query)) :
       /\ vecRes' = <<VectorResultOf(store, rows)>>
       /\ IF SelectedSearch(store, query) = "hybridSearch"
          THEN StartBm25(Append(trace, Event("vectorDone", Len(rows), <<>>)))
          ELSE /\ trace' = Append(trace, Event("vectorDone", Len(rows), <<>>))
               /\ Finish(Returned(VectorResultOf(store, rows)))
  /\ UNCHANGED <<store, query, initialized, ftsRes>>
  /\ UNCHANGED rrfVars
  /\ UNCHANGED bm25Vars
  /\ UNCHANGED componentVars

\* the vector statement failed
VectorFails ==
  /\ pc = "awaitVector"
  /\ trace' = Append(trace, Event("vectorFailed", 0, <<>>))
  /\ Finish(Failed(VectorFailure(store)))
  /\ UNCHANGED <<store, query, initialized, vecRes, ftsRes>>
  /\ UNCHANGED rrfVars
  /\ UNCHANGED bm25Vars
  /\ UNCHANGED componentVars

\* fuses the vector result with itself
HybridFusion_m(vectorResults, bm25Results) ==
  combineResults(vectorResults, vectorResults, HybridAlpha(query),
                 query.similarityTopK)

\* the combineResults call that ends hybridSearch (libsql) and the hybrid
\* case of query (supabase)
HybridFusion(vectorResults, bm25Results) ==
  combineResults(vectorResults, bm25Results, HybridAlpha(query),
                 query.similarityTopK)

\* the full-text statement returned rows; a hybrid query fuses the two
\* results
FtsReturns ==
  /\ pc = "awaitFts"
  /\ \E rows \in DbRows(SearchTopK(store, query)) :
       /\ ftsRes' = <<Bm25ResultOf(store, rows)>>
       /\ IF SelectedSearch(store, query) = "hybridSearch"
          THEN /\ trace' = trace \o
                    <<Event("ftsDone", Len(rows), <<>>),
                      Event("combineResults", query.similarityTopK,
                            <<HybridAlpha(query)>>)>>
               /\ Finish(Returned(
                    HybridFusion(vecRes[1], Bm25ResultOf(store, rows))))
          ELSE /\ trace' = Append(trace, Event("ftsDone", Len(rows), <<>>))
               /\ Finish(Returned(Bm25ResultOf(store, rows)))
  /\ UNCHANGED <<store, query, initialized, vecRes>>
  /\ UNCHANGED rrfVars
  /\ UNCHANGED bm25Vars
  /\ UNCHANGED componentVars

FtsFailureOutcome_m ==
  IF SelectedSearch(store, query) = "hybridSearch"
  THEN Returned(vecRes[1])
  ELSE Failed(Bm25Failure(store))

\* bm25Search rethrows, and neither hybridSearch (libsql) nor query
\* (supabase) catches
FtsFailureOutcome == Failed(Bm25Failure(store))

\* the full-text statement failed
FtsFails ==
  /\ pc = "awaitFts"
  /\ trace' = Append(trace, Event("ftsFailed", 0, <<>>))
  /\ Finish(FtsFailureOutcome)
  /\ UNCHANGED <<store, query, initialized, vecRes, ftsRes>>
  /\ UNCHANGED rrfVars
  /\ UNCHANGED bm25Vars
  /\ UNCHANGED componentVars

NextQuery ==
  \/ EnsureInitialized
  \/ SchemaReady
  \/ SchemaFails
  \/ Dispatch
  \/ VectorReturns
  \/ VectorFails
  \/ FtsReturns
  \/ FtsFails

SpecQuery == InitQuery /\ [][NextQuery]_vars

----------------------------------------------------------------------------
(* Properties of the query mode dispatch *)

HasEvent(ops) == \E i \in 1..Len(trace) : trace[i].op \in ops

\* the searches and the fusion that were invoked, in order
Calls ==
  LET c == SelectSeq(trace,
                     LAMBDA e : e.op \in {"vector", "fts", "combineResults"})
  IN [i \in 1..Len(c) |-> c[i].op]

\* C6: LibSQLVectorStore.query invokes exactly the scorers of the mode
\* table: bm25 runs only the full-text search, hybrid runs the vector search
\* and the full-text search and then combineResults with alpha (0.5 when not
\* given), default runs only the vector search.
C6_ModeTable ==
  store = "libsql" =>
    /\ query.mode = "bm25" => ~HasEvent({"vector", "combineResults"})
    /\ query.mode = "default" => ~HasEvent({"fts", "combineResults"})
    /\ (outcome.kind = "result" /\ query.mode = "bm25") => Calls = <<"fts">>
    /\ (outcome.kind = "result" /\ query.mode = "default"
          /\ query.queryEmbedding = "vector") => Calls = <<"vector">>
    /\ (outcome.kind = "result" /\ query.mode = "hybrid") =>
         /\ Calls = <<"vector", "fts", "combineResults">>
         /\ trace[Len(trace)].alpha =
              <<IF query.alpha = <<>> THEN <<1, 2>> ELSE query.alpha[1]>>
         /\ outcome.result =
              combineResults(vecRes[1], ftsRes[1],
                             IF query.alpha = <<>> THEN <<1, 2>>
                             ELSE query.alpha[1],
                             query.similarityTopK)

\* a libsql hybrid query with an explicit alpha that returned fused results
C6_Witness ==
  /\ store = "libsql"
  /\ query.mode = "hybrid"
  /\ query.alpha = <<<<1, 4>>>>
  /\ pc = "done"
  /\ outcome.kind = "result"
  /\ Len(outcome.result.ids) >= 2
  /\ Len(vecRes[1].ids) >= 1
  /\ Len(ftsRes[1].ids) >= 1

\* C7: a hybrid query with a query string but no (or an empty) query
\* embedding is rejected with an error, and neither the vector search nor
\* the full-text search has been executed.
C7_HybridNeedsEmbedding ==
  (/\ query.mode = "hybrid"
   /\ query.queryStr = "text"
   /\ query.queryEmbedding \in {"absent", "empty"}) =>
     /\ ~HasEvent({"vector", "fts"})
     /\ pc = "done" => outcome.kind = "error"

\* C8: a missing required input is reported before any sub-search is
\* issued; in particular a hybrid query with an embedding but no query
\* string fails without the vector search having been executed.
C8_CheckedBeforeSearch ==
  (/\ store \in Stores
   /\ query.mode = "hybrid"
   /\ query.queryEmbedding = "vector"
   /\ QueryStrMissing(query)) =>
     /\ ~HasEvent({"vector", "fts"})
     /\ pc = "done" => outcome.kind = "error"

\* C9: a default-mode query whose queryEmbedding is missing or empty fails
\* with an error; it never completes with a result.
C9_DefaultNeedsEmbedding ==
  (/\ store \in Stores
   /\ query.mode = "default"
   /\ query.queryEmbedding \in {"absent", "empty"}) =>
     /\ outcome.kind # "result"
     /\ pc = "done" => outcome.kind = "error"

\* C10: if either sub-search of a hybrid query fails, the hybrid query fails
\* with an error: combineResults is not called and the result of the other
\* sub-search is not returned.
C10_HybridFailsWhole ==
  (query.mode = "hybrid" /\ HasEvent({"vectorFailed", "ftsFailed"})) =>
     /\ pc = "done"
     /\ outcome.kind = "error"
     /\ outcome.result = NoResult
     /\ ~HasEvent({"combineResults"})

\* the vector sub-search had returned rows when the full-text one failed
C10_Witness ==
  /\ query.mode = "hybrid"
  /\ pc = "done"
  /\ HasEvent({"ftsFailed"})
  /\ vecRes # <<>>
  /\ Len(vecRes[1].ids) >= 1

\* the larger of two numbers
Max(a, b) == IF a >= b THEN a ELSE b

\* the prefetch size of a hybrid query: hybridPrefetch, or 5 x topK
PrefetchOf(q) ==
  IF q.hybridPrefetch = <<>> THEN 5 * q.similarityTopK ELSE q.hybridPrefetch[1]

\* C11: in hybrid mode each sub-search of LibSQLVectorStore is asked for
\* max(topK, prefetch) results, prefetch being 5 x topK unless hybridPrefetch
\* is given, so never for fewer than topK; the fused result has at most topK
\* entries.
C11_PrefetchAtLeastTopK ==
  (store = "libsql" /\ query.mode = "hybrid") =>
    /\ \A i \in 1..Len(trace) :
         trace[i].op \in {"vector", "fts"} =>
           /\ trace[i].k = Max(query.similarityTopK, PrefetchOf(query))
           /\ trace[i].k >= query.similarityTopK
    /\ outcome.kind = "result" =>
         Len(outcome.result.ids) <= query.similarityTopK

----------------------------------------------------------------------------
(* The BM25 index *)

MaxDocs == 3         \* most nodes handed to the BM25 constructor

\* A text is a sequence of pieces: a word, in its letter case, or "-", a run
\* of non-word characters.
Terms == {"cat", "dog", "pad", "zebra"}

toLowerCase(piece) ==
  CASE piece = "Cat" -> "cat"
    [] piece = "Dog" -> "dog"
    [] OTHER -> piece

\* keeps the separators as tokens
tokenize_m(text) == [i \in 1..Len(text) |-> toLowerCase(text[i])]

\* text.toLowerCase().split(/\W+/).filter(Boolean)
tokenize(text) ==
  SelectSeq([i \in 1..Len(text) |-> toLowerCase(text[i])],
            LAMBDA piece : piece # "-")

\* A number of the score computation: a rational <<n, d>> with d > 0, or NaN.
\* A zero divisor only ever meets a zero dividend there (tf = 0, or
\* docLength = 0 with avgdl = 0), so no infinity arises.
NaN == <<0, 0>>
NAdd(x, y) == IF x = NaN \/ y = NaN THEN NaN ELSE FAdd(x, y)
NMul(x, y) == IF x = NaN \/ y = NaN THEN NaN ELSE FMul(x, y)
NDiv(x, y) ==
  IF x = NaN \/ y = NaN \/ y[1] = 0 THEN NaN
  ELSE FNorm(<<x[1] * y[2], x[2] * y[1]>>)

\* Transcendental values are kept to five decimals: a logarithm, and with
\* it a score, is a whole number of units of 1/LogScale.
LogScale == 100000

\* Math.log at the arguments idf passes it, (2N + 2)/(2df + 1), rounded
Log(x) ==
  CASE x = <<14, 13>> -> 7411
    [] x = <<12, 11>> -> 8701
    [] x = <<10, 9>> -> 10536
    [] x = <<8, 7>> -> 13353
    [] x = <<6, 5>> -> 18232
    [] x = <<14, 11>> -> 24116
    [] x = <<4, 3>> -> 28768
    [] x = <<10, 7>> -> 35667
    [] x = <<14, 9>> -> 44183
    [] x = <<8, 5>> -> 47000
    [] x = <<12, 7>> -> 53900
    [] x = <<2, 1>> -> 69315
    [] x = <<12, 5>> -> 87547
    [] x = <<8, 3>> -> 98083
    [] x = <<14, 5>> -> 102962
    [] x = <<10, 3>> -> 120397
    [] x = <<4, 1>> -> 138629
    [] x = <<14, 3>> -> 154045
    [] x = <<6, 1>> -> 179176
    [] x = <<8, 1>> -> 207944
    [] x = <<10, 1>> -> 230259
    [] x = <<12, 1>> -> 248491
    [] x = <<14, 1>> -> 263906

\* 2^k
RECURSIVE Pow2(_)
Pow2(k) == IF k = 0 THEN 1 ELSE 2 * Pow2(k - 1)

\* 2^e modulo m
RECURSIVE PowMod(_, _)
PowMod(e, m) ==
  IF e = 0 THEN 1 % m
  ELSE LET h == PowMod(e \div 2, m)
       IN (h * h * (IF e % 2 = 1 THEN 2 ELSE 1)) % m

\* the largest k, negative when a < b, with 2^k * b <= a (a, b > 0)
RECURSIVE FloorLog2(_, _)
FloorLog2(a, b) ==
  IF a < b THEN FloorLog2(2 * a, b) - 1
  ELSE IF 2 * b <= a THEN FloorLog2(a, 2 * b) + 1
  ELSE 0

\* The JavaScript number (IEEE 754 double, 53-bit significand, round to
\* nearest, ties to even) that the division a / b of two small whole numbers
\* yields, for q = <<a, b>> in lowest terms: the double
\* (a * 2^e + d) / (b * 2^e), where e puts the quotient's significand in
\* [2^52, 2^53) and d is the rounding error.
Double(q) ==
  IF q[1] = 0 THEN [a |-> 0, b |-> 1, e |-> 0, d |-> 0]
  ELSE LET a == q[1]
           b == q[2]
           e == 52 - FloorLog2(a, b)
           r == ((a % b) * PowMod(e, b)) % b
           odd == (((a % (2 * b)) * PowMod(e, 2 * b)) % (2 * b)) \div b = 1
       IN [a |-> a, b |-> b, e |-> e,
           d |-> IF 2 * r < b \/ (2 * r = b /\ ~odd) THEN 0 - r ELSE b - r]

\* occurrences of token in tokens
CountOf(tokens, token) ==
  Cardinality({i \in 1..Len(tokens) : tokens[i] = token})

\* freqs of one node (lines 54-57); 0 stands for an absent key
FreqsOf(tokens) == [t \in Terms |-> CountOf(tokens, t)]

RECURSIVE TotalLength(_, _)
TotalLength(tokens, i) ==
  IF i > Len(tokens) THEN 0 ELSE Len(tokens[i]) + TotalLength(tokens, i + 1)

\* this.docCount, also when it is 0
AvgdlDivisor_m(nodes) == Len(nodes)

\* this.docCount || 1
AvgdlDivisor(nodes) == IF Len(nodes) = 0 THEN 1 ELSE Len(nodes)

\* options?.k1 ?? 1.5  and  options?.b ?? 0.75
OptionOr(opt, default) == IF opt = <<>> THEN default ELSE opt[1]

\* new BM25(nodes, options).  docLengths and termFreqs are objects keyed by
\* node id: a key takes its place at its first assignment and holds the value
\* of its last one.  docCount, totalLength and docFreqs count every node.
BM25(nodes, options) ==
  LET n == Len(nodes)
      tokens == [i \in 1..n |-> tokenize(nodes[i].text)]
      same(i) == {j \in 1..n : nodes[j].id_ = nodes[i].id_}
      firsts == {i \in 1..n : \A j \in same(i) : i <= j}
      last(i) == CHOOSE j \in same(i) : \A k \in same(i) : k <= j
      order == Ascending(n, firsts)
  IN [k1 |-> OptionOr(options.k1, <<3, 2>>),
      b |-> OptionOr(options.b, <<3, 4>>),
      docCount |-> n,
      docLengths |-> [k \in 1..Len(order) |->
                        [id |-> nodes[order[k]].id_,
                         length |-> Len(tokens[last(order[k])])]],
      termFreqs |-> [k \in 1..Len(order) |->
                       [id |-> nodes[order[k]].id_,
                        freqs |-> FreqsOf(tokens[last(order[k])])]],
      docFreqs |-> [t \in Terms |->
                      Cardinality({i \in 1..n : CountOf(tokens[i], t) > 0})],
      avgdl |-> FNorm(<<TotalLength(tokens, 1), AvgdlDivisor(nodes)>>)]

getDocumentCount(index) == index.docCount

getAverageDocumentLength(index) == index.avgdl

\* the fraction inverted: log((df + 0.5) / (N - df + 0.5) + 1)
idf_m(index, term) ==
  LET df == index.docFreqs[term]
  IN Log(FAdd(FNorm(<<2 * df + 1, 2 * (index.docCount - df) + 1>>), FOne))

\* Math.log((this.docCount - df + 0.5) / (df + 0.5) + 1)
idf(index, term) ==
  LET df == index.docFreqs[term]
  IN Log(FAdd(FNorm(<<2 * (index.docCount - df) + 1, 2 * df + 1>>), FOne))

\* this.docLengths[docId] ?? 0
DocLength(index, docId) ==
  IF Lookup(index.docLengths, docId) = <<>> THEN 0
  ELSE Lookup(index.docLengths, docId)[1].length

\* tf + k1 * (1 - b), without the length term
Denominator_m(index, tf, docLength) ==
  NAdd(<<tf, 1>>, NMul(index.k1, FSub(FOne, index.b)))

\* tf + this.k1 * (1 - this.b + (this.b * docLength) / this.avgdl)
Denominator(index, tf, docLength) ==
  NAdd(<<tf, 1>>,
       NMul(index.k1,
            NAdd(FSub(FOne, index.b),
                 NDiv(FMul(index.b, <<docLength, 1>>), index.avgdl))))

\* numerator without tf: (this.k1 + 1) / denominator
Saturation_m(index, tf, docLength) ==
  NDiv(FAdd(index.k1, FOne), Denominator(index, tf, docLength))

\* numerator / denominator
Saturation(index, tf, docLength) ==
  NDiv(FMul(<<tf, 1>>, FAdd(index.k1, FOne)),
       Denominator(index, tf, docLength))

\* idf * (numerator / denominator) of one query token for one document, in
\* units of 1/LogScale
TokenScore(index, doc, token) ==
  LET r == Saturation(index, doc.freqs[token], DocLength(index, doc.id))
  IN IF r = NaN THEN NaN
     ELSE <<(idf(index, token) * r[1]) \div r[2], LogScale>>

\* skips a token the loop has already scored
SkipToken_m(index, queryTokens, i) ==
  \/ index.docFreqs[queryTokens[i]] = 0
  \/ \E j \in 1..(i - 1) : queryTokens[j] = queryTokens[i]

\* if (!this.docFreqs[token]) continue
SkipToken(index, queryTokens, i) == index.docFreqs[queryTokens[i]] = 0

\* for (const token of queryTokens) score += ... , from token i on
RECURSIVE DocScore(_, _, _, _, _)
DocScore(index, doc, queryTokens, i, score) ==
  IF i > Len(queryTokens) THEN score
  ELSE IF SkipToken(index, queryTokens, i)
  THEN DocScore(index, doc, queryTokens, i + 1, score)
  ELSE DocScore(index, doc, queryTokens, i + 1,
                IF score = NaN \/ TokenScore(index, doc, queryTokens[i]) = NaN
                THEN NaN
                ELSE <<score[1] + TokenScore(index, doc, queryTokens[i])[1],
                       LogScale>>)

\* keeps documents of score 0
ScorePositive_m(score) == score # NaN /\ score[1] >= 0

\* score > 0 (false for NaN)
ScorePositive(score) == score # NaN /\ score[1] > 0

\* BM25.search(query, topK)
search(index, queryText, topK) ==
  LET queryTokens == tokenize(queryText)
      docs == ObjectValues(index.termFreqs)
      all == [k \in 1..Len(docs) |->
                [id |-> docs[k].id,
                 score |-> DocScore(index, docs[k], queryTokens, 1,
                                    <<0, LogScale>>)]]
      scores == SelectSeq(all, LAMBDA e : ScorePositive(e.score))
  IN Slice(SortDesc(scores), topK)

\* node contents (getContent(MetadataMode.NONE)): "", "cat", "Cat - cat",
\* "cat dog", "dog"
Texts ==
  {<<>>, <<"cat">>, <<"Cat", "-", "cat">>, <<"cat", "dog">>, <<"dog">>}

\* node ids by position: plain names, names mixed with the array-index keys
\* "2" and "1", and ids that repeat
IdOrders ==
  {<<"a", "b", "c", "d", "e">>, <<"b", "2", "1", "a", "c">>,
   <<"a", "a", "1", "1", "b">>}

Corpora ==
  UNION {{[i \in 1..n |-> [id_ |-> ids[i], text |-> texts[i]]] :
            ids \in IdOrders, texts \in [1..n -> Texts]} : n \in 0..MaxDocs}

BM25Options == [k1 : {<<>>, <<<<0, 1>>>>}, b : {<<>>, <<<<0, 1>>>>, <<<<1, 1>>>>}]

\* query strings: "", " - ", "cat", "Dog", "cat dog", "cat cat dog", "zebra"
QueryTexts ==
  {<<>>, <<"-">>, <<"cat">>, <<"Dog">>, <<"cat", "dog">>,
   <<"cat", "cat", "dog">>, <<"zebra">>}

InitBM25 ==
  /\ bmPc = "new"
  /\ bmNodes \in Corpora
  /\ bmOpts \in BM25Options
  /\ bmIndex = NoIndex
  /\ bmCall = NoSearch
  /\ bmOut = <<>>
  /\ bmFirst = NoFirst
  /\ IdleRRF
  /\ IdleQuery
  /\ IdleComponents

\* new BM25(nodes, options)
Construct ==
  /\ bmPc = "new"
  /\ bmIndex' = BM25(bmNodes, bmOpts)
  /\ bmPc' = "ready"
  /\ UNCHANGED <<bmNodes, bmOpts, bmCall, bmOut, bmFirst>>
  /\ UNCHANGED rrfVars
  /\ UNCHANGED queryVars
  /\ UNCHANGED componentVars

\* search leaves the number of query tokens in docCount
IndexAfterSearch_m(index, queryText) ==
  [index EXCEPT !.docCount = Len(tokenize(queryText))]

\* the fields of the object after search ran: search assigns none of them
IndexAfterSearch(index, queryText) == index

\* one run of search(query, topK) on the object
RunSearch(q, k) ==
  /\ bmCall' = [query |-> q, topK |-> k]
  /\ bmOut' = search(bmIndex, q, k)
  /\ bmIndex' = IndexAfterSearch(bmIndex, q)
  /\ bmFirst' = IF bmFirst.made THEN bmFirst
                ELSE [call |-> bmCall', out |-> bmOut', made |-> TRUE]
  /\ bmPc' = "searched"
  /\ UNCHANGED <<bmNodes, bmOpts>>

\* bm25.search(query, topK)
Search ==
  /\ bmPc = "ready"
  /\ \E q \in QueryTexts, k \in 1..MaxTopK : RunSearch(q, k)
  /\ UNCHANGED rrfVars
  /\ UNCHANGED queryVars
  /\ UNCHANGED componentVars

NextBM25 == Construct \/ Search

SpecBM25 == InitBM25 /\ [][NextBM25]_vars

\* Any number of searches on one object: corpora of two nodes with the ids
\* a and b, default options.
InitSearches ==
  /\ bmPc = "new"
  /\ bmNodes \in {c \in Corpora :
                    Len(c) = 2 /\ c[1].id_ = "a" /\ c[2].id_ = "b"}
  /\ bmOpts = [k1 |-> <<>>, b |-> <<>>]
  /\ bmIndex = NoIndex
  /\ bmCall = NoSearch
  /\ bmOut = <<>>
  /\ bmFirst = NoFirst
  /\ IdleRRF
  /\ IdleQuery
  /\ IdleComponents

\* a further bm25.search(query, topK) on the same object
SearchAgain ==
  /\ bmPc = "searched"
  /\ \E q \in QueryTexts, k \in 1..MaxTopK : RunSearch(q, k)
  /\ UNCHANGED rrfVars
  /\ UNCHANGED queryVars
  /\ UNCHANGED componentVars

NextSearches == Construct \/ Search \/ SearchAgain

SpecSearches == InitSearches /\ [][NextSearches]_vars

\* Larger corpora of plain documents: n nodes with distinct ids, the last of
\* l2 words and the others of l1 words each.
MaxLongDocs == 7     \* most nodes of such a corpus
MaxLongLen == 5      \* most words of one of its documents

LongCorpus(n, l1, l2) ==
  [i \in 1..n |-> [id_ |-> FillerIds("d", n)[i],
                   text |-> [j \in 1..(IF i = n THEN l2 ELSE l1) |-> "cat"]]]

InitLong ==
  /\ bmPc = "new"
  /\ bmNodes \in {LongCorpus(n, l1, l2) :
                    n \in 0..MaxLongDocs, l1 \in 0..MaxLongLen,
                    l2 \in 0..MaxLongLen}
  /\ bmOpts = [k1 |-> <<>>, b |-> <<>>]
  /\ bmIndex = NoIndex
  /\ bmCall = NoSearch
  /\ bmOut = <<>>
  /\ bmFirst = NoFirst
  /\ IdleRRF
  /\ IdleQuery
  /\ IdleComponents

SpecLong == InitLong /\ [][Construct]_vars

----------------------------------------------------------------------------
(* Properties of the BM25 index *)

Searched == bmPc = "searched"
CorpusIds == {bmNodes[i].id_ : i \in 1..Len(bmNodes)}
QueryTokens == tokenize(bmCall.query)

\* the nodes whose text is indexed: the last node of each id
Indexed == {i \in 1..Len(bmNodes) :
              \A j \in 1..Len(bmNodes) : bmNodes[j].id_ = bmNodes[i].id_ => j <= i}

\* no two nodes of the corpus share an id
DistinctIds == Cardinality(CorpusIds) = Len(bmNodes)

\* the node contains the token
Contains(i, token) == CountOf(tokenize(bmNodes[i].text), token) > 0

\* position of id in the returned list, 0 when it is not returned
ReturnedAt(id) ==
  IF \E p \in 1..Len(bmOut) : bmOut[p].id = id
  THEN CHOOSE p \in 1..Len(bmOut) : bmOut[p].id = id
  ELSE 0

\* C12: BM25.search(query, topK) returns at most topK entries in
\* non-increasing score order; every score is strictly positive, every id is
\* an id of the corpus, and no id is returned twice.
C12_SearchResultShape ==
  Searched =>
    /\ Len(bmOut) <= bmCall.topK
    /\ \A p \in 1..Len(bmOut) :
         /\ bmOut[p].score # NaN
         /\ bmOut[p].score[1] > 0
         /\ bmOut[p].id \in CorpusIds
    /\ \A p, q \in 1..Len(bmOut) :
         /\ p < q => bmOut[p].score[1] >= bmOut[q].score[1]
         /\ p # q => bmOut[p].id # bmOut[q].id

\* more documents match than topK allows, and two nodes share an id
C12_Witness ==
  /\ Searched
  /\ bmCall.topK = 1
  /\ Len(bmOut) = 1
  /\ Cardinality(CorpusIds) < Len(bmNodes)
  /\ Cardinality({i \in Indexed : \E k \in 1..Len(QueryTokens) :
                     Contains(i, QueryTokens[k])}) > 1

\* some query token occurs in some indexed document
SomeTokenIndexed ==
  \E i \in Indexed : \E k \in 1..Len(QueryTokens) : Contains(i, QueryTokens[k])

\* C13: BM25.search returns the empty list when the corpus is empty, when
\* the query string yields no tokens, or when none of the query tokens occurs
\* in any indexed document.
C13_EmptyResult ==
  (Searched /\ (Len(bmNodes) = 0 \/ QueryTokens = <<>> \/ ~SomeTokenIndexed))
    => bmOut = <<>>

\* the query token occurs in no indexed document, although the index counts
\* it (docFreqs) for a node whose id a later node took over
C13_Witness ==
  /\ Searched
  /\ bmOut = <<>>
  /\ Len(QueryTokens) = 1
  /\ ~SomeTokenIndexed
  /\ bmIndex.docFreqs[QueryTokens[1]] > 0
  /\ \E i \in Indexed : tokenize(bmNodes[i].text) # <<>>

\* sum of idf(t) over the query tokens, as the query lists them, that node i
\* contains, in units of 1/LogScale
RECURSIVE IdfSum(_, _)
IdfSum(i, k) ==
  IF k > Len(QueryTokens) THEN 0
  ELSE (IF Contains(i, QueryTokens[k]) THEN idf(bmIndex, QueryTokens[k]) ELSE 0)
       + IdfSum(i, k + 1)

\* C14: with k1 = 0 every document that contains at least one query token is
\* returned, topK permitting, with a positive score equal to the sum of
\* idf(t) over the query tokens t it contains, also when it contains only
\* some of the tokens of a multi-token query.
C14_BinaryPresence ==
  (Searched /\ DistinctIds /\ bmIndex.k1 = <<0, 1>>) =>
    \A i \in Indexed :
      (\E k \in 1..Len(QueryTokens) : Contains(i, QueryTokens[k])) =>
        /\ ReturnedAt(bmNodes[i].id_) > 0 \/ Len(bmOut) = bmCall.topK
        /\ ReturnedAt(bmNodes[i].id_) > 0 =>
             /\ bmOut[ReturnedAt(bmNodes[i].id_)].score[1] > 0
             /\ bmOut[ReturnedAt(bmNodes[i].id_)].score[1] = IdfSum(i, 1)

\* the distinct tokens of a token list, each at its first position
Distinct(tokens) ==
  LET first == {k \in 1..Len(tokens) :
                  \A j \in 1..(k - 1) : tokens[j] # tokens[k]}
      order == Ascending(Len(tokens), first)
  IN [n \in 1..Len(order) |-> tokens[order[n]]]

\* C15: a document's score is the sum over the distinct tokens of the
\* query, so the result of a query (ids, scores, order) is the result of the
\* same query with every repeated token removed.
C15_DistinctQueryTokens ==
  Searched => bmOut = search(bmIndex, Distinct(QueryTokens), bmCall.topK)

Constructed == bmPc \in {"ready", "searched"}

\* the lengths the index holds, summed
RECURSIVE IndexedLength(_)
IndexedLength(k) ==
  IF k > Len(bmIndex.docLengths) THEN 0
  ELSE bmIndex.docLengths[k].length + IndexedLength(k + 1)

\* x * n === t for a double x and whole numbers n, t >= 0: the product is
\* formed exactly, t + err, and rounded to 53 bits; it rounds to t when err
\* is at most half the distance from t to its neighbour double (the
\* significand of t is even, so a tie rounds to t).
ProductRoundsTo(x, n, t) ==
  IF x.a * n # t * x.b THEN FALSE
  ELSE LET err == (x.d * n) \div x.b      \* err / 2^e is the error
           mag == IF err < 0 THEN 0 - err ELSE err
           s == x.e + FloorLog2(t, 1) - 53
                  - (IF err < 0 /\ t = Pow2(FloorLog2(t, 1)) THEN 1 ELSE 0)
       IN err = 0 \/ (s >= 0 /\ mag <= Pow2(s))

\* C16 as stated: for a corpus with distinct document ids,
\* getAverageDocumentLength() times getDocumentCount() equals the total
\* number of tokens of all documents, and the average is 0 when the corpus is
\* empty.
C16_ProductIsTotal ==
  (Constructed /\ DistinctIds) =>
    /\ Len(bmNodes) > 0 =>
         ProductRoundsTo(Double(getAverageDocumentLength(bmIndex)),
                         getDocumentCount(bmIndex), IndexedLength(1))
    /\ Len(bmNodes) = 0 => getAverageDocumentLength(bmIndex) = <<0, 1>>

\* C16 (amended): for a corpus with distinct document ids,
\* getAverageDocumentLength() is the total number of tokens of all documents
\* divided by getDocumentCount(), and 0 when the corpus is empty.
C16_AverageLength ==
  (Constructed /\ DistinctIds) =>
    /\ Len(bmNodes) > 0 =>
         getAverageDocumentLength(bmIndex) =
           FNorm(<<IndexedLength(1), getDocumentCount(bmIndex)>>)
    /\ Len(bmNodes) = 0 => getAverageDocumentLength(bmIndex) = <<0, 1>>

\* seven documents, 29 tokens
C16_Witness ==
  /\ Constructed
  /\ DistinctIds
  /\ getDocumentCount(bmIndex) = 7
  /\ getAverageDocumentLength(bmIndex) = <<29, 7>>

\* the corpus with node i padded to twice its length by words that are not
\* query terms
Padded(i) ==
  [bmNodes EXCEPT ![i].text =
     @ \o [j \in 1..Len(tokenize(@)) |-> "pad"]]

\* the score of id in a search result, <<>> when the result lacks it
ScoreAt(out, id) ==
  LET at == {p \in 1..Len(out) : out[p].id = id}
  IN IF at = {} THEN <<>> ELSE <<out[CHOOSE p \in at : TRUE].score>>

\* the same as a number of units, 0 when the result lacks id
UnitsAt(out, id) == IF ScoreAt(out, id) = <<>> THEN 0 ELSE ScoreAt(out, id)[1][1]

\* the whole result of a query on an index, without truncation
FullSearch(index, queryText) == search(index, queryText, index.docCount)

\* tokens of the corpus outside node i
OtherTokens(i) ==
  TotalLength([j \in 1..Len(bmNodes) |-> tokenize(bmNodes[j].text)], 1)
    - Len(tokenize(bmNodes[i].text))

\* the nodes the single-term query returned
ReturnedNodes == {i \in Indexed : ReturnedAt(bmNodes[i].id_) > 0}
ScoreBefore(i) == bmOut[ReturnedAt(bmNodes[i].id_)].score
ScoreAfter(i) ==
  ScoreAt(FullSearch(BM25(Padded(i), bmOpts), bmCall.query), bmNodes[i].id_)

\* C17 as stated: for a single-term query on any corpus, padding a document
\* to twice its length with non-query terms leaves its score unchanged when
\* b = 0 and strictly decreases it when b = 0.75.
C17_PaddingEffect ==
  (Searched /\ DistinctIds /\ Len(QueryTokens) = 1) =>
    \A i \in ReturnedNodes :
      LET after == ScoreAfter(i)
      IN /\ bmIndex.b = <<0, 1>> => after = <<ScoreBefore(i)>>
         /\ bmIndex.b = <<3, 4>> =>
              /\ after # <<>>
              /\ FLt(after[1], ScoreBefore(i))

\* C17 (amended): for a single-term query, padding a document to twice its
\* length with non-query terms leaves its score unchanged when b = 0, and
\* strictly decreases it when b = 0.75, k1 > 0 and some other document of the
\* corpus is not empty.
C17_PaddingEffectAmended ==
  (Searched /\ Len(QueryTokens) = 1) =>
    \A i \in ReturnedNodes :
      LET after == ScoreAfter(i)
      IN /\ bmIndex.b = <<0, 1>> => after = <<ScoreBefore(i)>>
         /\ (bmIndex.b = <<3, 4>> /\ bmIndex.k1 # <<0, 1>>
               /\ OtherTokens(i) > 0) =>
              /\ after # <<>>
              /\ FLt(after[1], ScoreBefore(i))

\* b = 0.75, k1 = 1.5: a returned document of two words in a corpus with
\* another document that is not empty
C17_Witness ==
  /\ Searched
  /\ DistinctIds
  /\ Len(QueryTokens) = 1
  /\ bmIndex.b = <<3, 4>>
  /\ bmIndex.k1 = <<3, 2>>
  /\ \E i \in ReturnedNodes :
       /\ Len(tokenize(bmNodes[i].text)) = 2
       /\ OtherTokens(i) > 0
       /\ ScoreAfter(i) # <<>>
       /\ FLt(ScoreAfter(i)[1], ScoreBefore(i))

NodeLength(i) == Len(tokenize(bmNodes[i].text))
TermFrequency(i, token) == CountOf(tokenize(bmNodes[i].text), token)

\* C18: for a single-term query and k1 > 0, of two documents of one corpus
\* that have the same length, the one with the higher frequency of the term
\* never has the lower score.
C18_MonotoneInFrequency ==
  (Searched /\ Len(QueryTokens) = 1 /\ bmIndex.k1 # <<0, 1>>) =>
    LET full == FullSearch(bmIndex, bmCall.query)
    IN \A i, j \in Indexed :
         (/\ NodeLength(i) = NodeLength(j)
          /\ TermFrequency(i, QueryTokens[1])
                <= TermFrequency(j, QueryTokens[1]))
           => UnitsAt(full, bmNodes[i].id_) <= UnitsAt(full, bmNodes[j].id_)

\* two documents of two words, one with the term once and one with it twice
C18_Witness ==
  /\ Searched
  /\ Len(QueryTokens) = 1
  /\ bmIndex.k1 = <<3, 2>>
  /\ \E i, j \in Indexed :
       /\ NodeLength(i) = 2
       /\ NodeLength(j) = 2
       /\ TermFrequency(i, QueryTokens[1]) = 1
       /\ TermFrequency(j, QueryTokens[1]) = 2
       /\ 0 < UnitsAt(FullSearch(bmIndex, bmCall.query), bmNodes[i].id_)
       /\ UnitsAt(FullSearch(bmIndex, bmCall.query), bmNodes[i].id_)
            < UnitsAt(FullSearch(bmIndex, bmCall.query), bmNodes[j].id_)

\* the score of node i for the one-term query <<term>>, 0 when not returned
TermScore(i, term) == UnitsAt(FullSearch(bmIndex, <<term>>), bmNodes[i].id_)

\* C19: in a corpus of N > 2 documents idf is strictly decreasing in the
\* document frequency, and for documents of equal length and equal term
\* frequency a term that occurs in exactly one document scores strictly
\* higher than a term that occurs in all N documents.
C19_RareTermsScoreHigher ==
  (bmPc = "ready" /\ getDocumentCount(bmIndex) > 2) =>
    /\ \A t, u \in Terms :
         bmIndex.docFreqs[t] < bmIndex.docFreqs[u] =>
           idf(bmIndex, t) > idf(bmIndex, u)
    /\ \A t, u \in Terms : \A i, j \in Indexed :
         (/\ bmIndex.docFreqs[t] = 1
          /\ bmIndex.docFreqs[u] = getDocumentCount(bmIndex)
          /\ NodeLength(i) = NodeLength(j)
          /\ TermFrequency(i, t) > 0
          /\ TermFrequency(i, t) = TermFrequency(j, u))
           => TermScore(i, t) > TermScore(j, u)

\* three documents: one term in the first only, another in all three
C19_Witness ==
  /\ bmPc = "ready"
  /\ getDocumentCount(bmIndex) = 3
  /\ \E t, u \in Terms : \E i, j \in Indexed :
       /\ bmIndex.docFreqs[t] = 1
       /\ bmIndex.docFreqs[u] = 3
       /\ NodeLength(i) = NodeLength(j)
       /\ TermFrequency(i, t) = 1
       /\ TermFrequency(j, u) = 1
       /\ TermScore(i, t) > TermScore(j, u)

\* where a document id entered the corpus: the first node that carries it
InsertedAt(id) ==
  CHOOSE i \in 1..Len(bmNodes) :
    /\ bmNodes[i].id_ = id
    /\ \A j \in 1..(i - 1) : bmNodes[j].id_ # id

\* where combineResults first met an id: its place in the vector list, or,
\* for an id of the BM25 list only, its place there after the vector list
DiscoveredAt(id) ==
  IF RankIn(VIds, id) > 0 THEN RankIn(VIds, id)
  ELSE Len(VIds) + RankIn(BIds, id)

\* BM25.search lists documents of equal score in the order of their insertion
\* into the corpus
Bm25TiesKeepInsertionOrder ==
  (Searched /\ DistinctIds) =>
    \A p, q \in 1..Len(bmOut) :
      (p < q /\ bmOut[p].score = bmOut[q].score) =>
        InsertedAt(bmOut[p].id) < InsertedAt(bmOut[q].id)

\* combineResults lists ids of equal score in the order it first met them
RrfTiesKeepDiscoveryOrder ==
  (rrfPc = "done" /\ NoRepeats(VIds) /\ NoRepeats(BIds)
     /\ EveryIdHasNode(rrfIn.vectorResults)
     /\ EveryIdHasNode(rrfIn.bm25Results)) =>
    \A p, q \in OutIdx :
      (p < q /\ FEq(rrfOut.similarities[p], rrfOut.similarities[q])) =>
        DiscoveredAt(rrfOut.ids[p]) < DiscoveredAt(rrfOut.ids[q])

\* C20: entries of equal score keep their discovery order for every choice
\* of document ids: insertion order in BM25.search; in combineResults the
\* vector list in list order, then the ids of the BM25 list only.
C20_TiesKeepDiscoveryOrder ==
  /\ Bm25TiesKeepInsertionOrder
  /\ RrfTiesKeepDiscoveryOrder

\* the ids that appear in either input list
AllIds == {VIds[i] : i \in 1..Len(VIds)} \cup {BIds[i] : i \in 1..Len(BIds)}

\* C21: when topK is at least the number of distinct ids of the two input
\* lists, combineResults returns every id of either list exactly once, also
\* for an input result that carries ids and similarities but no nodes array.
C21_EveryIdReturned ==
  (rrfPc = "done" /\ rrfIn.similarityTopK >= Cardinality(AllIds)) =>
    /\ {rrfOut.ids[p] : p \in OutIdx} = AllIds
    /\ NoRepeats(rrfOut.ids)

\* combineResults(B, V, 1 - alpha, topK) for the call combineResults(V, B,
\* alpha, topK) of the state
Swapped ==
  combineResults(rrfIn.bm25Results, rrfIn.vectorResults,
                 FSub(FOne, rrfIn.alpha), rrfIn.similarityTopK)

\* C22: combineResults(V, B, alpha, topK) and combineResults(B, V, 1 - alpha,
\* topK) give the same combined score to every id they both return (lists
\* without repeated ids).
C22_SwapSymmetry ==
  (rrfPc = "done" /\ NoRepeats(VIds) /\ NoRepeats(BIds)) =>
    \A p \in OutIdx : \A q \in 1..Len(Swapped.ids) :
      rrfOut.ids[p] = Swapped.ids[q] =>
        FEq(rrfOut.similarities[p], Swapped.similarities[q])

----------------------------------------------------------------------------
(* VectorIndexRetriever.retrieveQuery (indices/vectorStore/index.ts) *)

MaxItems == 2        \* most content items of one query message

\* modes a retriever can be built with
RetrieverModes == {"default", "bm25", "hybrid", "semantic_hybrid", "mmr"}

\* modesRequiringQueryString
modesRequiringQueryString == {"bm25", "hybrid", "semantic_hybrid"}

\* every mode but bm25 embeds the query
requiresQueryEmbedding_m(mode) == TRUE

requiresQueryEmbedding(mode) == mode # "bm25"

requiresQueryString(mode) == mode \in modesRequiringQueryString

\* Query messages.  A string query becomes one text item and is its own
\* query string; a multi-modal query keeps its items, its query string is
\* the text extracted from them.
ContentItems == {"text", "image_url"}
Messages ==
  {[items |-> <<"text">>, text |-> t] : t \in {"", "cats"}}
    \cup {[items |-> its, text |-> t] :
            its \in UNION {[1..n -> ContentItems] : n \in 0..MaxItems},
            t \in {"", "cats"}}

RetrieverOptions ==
  [mode : RetrieverModes, embedModel : BOOLEAN, alpha : {<<>>, <<<<1, 2>>>>}]

\* what getQueryEmbedding can resolve to: null, or an array of numbers
\* (empty or not)
Embeddings == {"null", "empty", "vector"}

InitRetriever ==
  /\ retPc = "start"
  /\ retOpts \in RetrieverOptions
  /\ retMessage \in Messages
  /\ retItem = 0
  /\ retEmbedded = <<>>
  /\ retSent = <<>>
  /\ IdleRRF
  /\ IdleQuery
  /\ IdleBM25
  /\ IdleQueryEmbedding
  /\ IdleStrategy
  /\ IdleFs
  /\ IdleStore
  /\ IdleBatch

\* the VectorStoreQuery built for one item; an absent field is <<>>
VectorQueryOf(embedding) ==
  [mode |-> retOpts.mode,
   queryEmbedding |->
     IF requiresQueryEmbedding(retOpts.mode) /\ embedding # "null"
     THEN <<embedding>> ELSE <<>>,
   queryStr |->
     IF requiresQueryString(retOpts.mode) THEN <<retMessage.text>> ELSE <<>>,
   alpha |-> retOpts.alpha]

\* await vectorStore.query(vectorQuery) is started
SendQuery(embedding) ==
  /\ retSent' = Append(retSent, VectorQueryOf(embedding))
  /\ retPc' = "query"

\* the head of `for (const item of query)` at item i, up to its first await
EnterItem(i) ==
  /\ retItem' = i
  /\ IF i > Len(retMessage.items)
     THEN retPc' = "returned" /\ UNCHANGED <<retEmbedded, retSent>>
     ELSE IF requiresQueryEmbedding(retOpts.mode)
          THEN IF ~retOpts.embedModel
               THEN retPc' = "failed" /\ UNCHANGED <<retEmbedded, retSent>>
               ELSE /\ retEmbedded' = Append(retEmbedded, retMessage.items[i])
                    /\ retPc' = "embed"
                    /\ UNCHANGED retSent
          ELSE SendQuery("null") /\ UNCHANGED retEmbedded

\* retrieveQuery is called
RetrieveQuery ==
  /\ retPc = "start"
  /\ EnterItem(1)
  /\ UNCHANGED <<retOpts, retMessage>>
  /\ UNCHANGED retrieverFrame

\* embedModel.getQueryEmbedding(item) resolves: null skips the item,
\* anything else goes into the query of this item
EmbeddingReturns ==
  /\ retPc = "embed"
  /\ \E e \in Embeddings :
       IF e = "null"
       THEN EnterItem(retItem + 1)
       ELSE SendQuery(e) /\ UNCHANGED <<retItem, retEmbedded>>
  /\ UNCHANGED <<retOpts, retMessage>>
  /\ UNCHANGED retrieverFrame

\* embedModel.getQueryEmbedding(item) rejects
EmbeddingFails ==
  /\ retPc = "embed"
  /\ retPc' = "failed"
  /\ UNCHANGED <<retOpts, retMessage, retItem, retEmbedded, retSent>>
  /\ UNCHANGED retrieverFrame

\* vectorStore.query resolves and its nodes are appended
StoreReturns ==
  /\ retPc = "query"
  /\ EnterItem(retItem + 1)
  /\ UNCHANGED <<retOpts, retMessage>>
  /\ UNCHANGED retrieverFrame

\* vectorStore.query rejects, or buildNodeListFromQueryResult throws
StoreFails ==
  /\ retPc = "query"
  /\ retPc' = "failed"
  /\ UNCHANGED <<retOpts, retMessage, retItem, retEmbedded, retSent>>
  /\ UNCHANGED retrieverFrame

NextRetriever ==
  \/ RetrieveQuery
  \/ EmbeddingReturns
  \/ EmbeddingFails
  \/ StoreReturns
  \/ StoreFails

SpecRetriever == InitRetriever /\ [][NextRetriever]_vars

\* C23: in bm25 mode the retriever never calls the embedding model and
\* every query it sends carries the query string and no queryEmbedding; in
\* hybrid mode every query it sends carries both.
C23_ModeFields ==
  /\ retOpts.mode = "bm25" =>
       /\ retEmbedded = <<>>
       /\ \A k \in 1..Len(retSent) :
            /\ retSent[k].queryStr = <<retMessage.text>>
            /\ retSent[k].queryEmbedding = <<>>
  /\ retOpts.mode = "hybrid" =>
       \A k \in 1..Len(retSent) :
         /\ retSent[k].queryStr = <<retMessage.text>>
         /\ retSent[k].queryEmbedding # <<>>

\* a bm25 retriever that has an embedding model and returned after sending
\* one query per item of a two-item message
C23_Witness ==
  /\ retPc = "returned"
  /\ retOpts.mode = "bm25"
  /\ retOpts.embedModel
  /\ retMessage.text = "cats"
  /\ Len(retSent) = 2

----------------------------------------------------------------------------
(* BM25.search leaves the index alone *)

----------------------------------------------------------------------------
(* Order of the sub-searches and the fusion of a hybrid query *)

\* position of the first event of kind op in the trace, 0 when there is none
FirstEvent(op) ==
  IF HasEvent({op})
  THEN CHOOSE i \in 1..Len(trace) :
         trace[i].op = op /\ \A j \in 1..(i - 1) : trace[j].op # op
  ELSE 0

\* C25: in a hybrid query combineResults is invoked only after both the
\* vector sub-search and the full-text sub-search have completed, and it is
\* given exactly the results of those two sub-searches.
C25_FusionAfterBoth ==
  (query.mode = "hybrid" /\ HasEvent({"combineResults"})) =>
    /\ 0 < FirstEvent("vectorDone")
    /\ FirstEvent("vectorDone") < FirstEvent("combineResults")
    /\ 0 < FirstEvent("ftsDone")
    /\ FirstEvent("ftsDone") < FirstEvent("combineResults")
    /\ vecRes # <<>>
    /\ ftsRes # <<>>
    /\ outcome =
         Returned(combineResults(vecRes[1], ftsRes[1], HybridAlpha(query),
                                 query.similarityTopK))

\* a hybrid query fused two sub-search results that differ
C25_Witness ==
  /\ query.mode = "hybrid"
  /\ pc = "done"
  /\ HasEvent({"combineResults"})
  /\ vecRes # <<>>
  /\ ftsRes # <<>>
  /\ Len(vecRes[1].ids) = 2
  /\ Len(ftsRes[1].ids) = 1
  /\ ftsRes[1].ids[1] # vecRes[1].ids[1]
  /\ ftsRes[1].ids[1] # vecRes[1].ids[2]

----------------------------------------------------------------------------
(* calculateQueryEmbedding (embeddings/query.ts) *)

\* content types the function handles, and the key each one is read from
SupportedTypes == {"text", "image_url", "image_type", "image"}
PayloadKey(type) ==
  CASE type = "text" -> "text"
    [] type = "image_url" -> "image_url"
    [] type = "image_type" -> "image"
    [] type = "image" -> "data"
    [] OTHER -> "data"

\* the modality whose embedding function serves a content type
ModalityOf_m(type) == "image"

ModalityOf(type) == IF type = "text" THEN "text" ELSE "image"

\* Content items: every type of MessageContentDetail with its own payload
\* key, and, for the handled types, an object that has the type but not the
\* key.
ItemTypes == SupportedTypes \cup {"audio", "video", "file"}
Payloads == {"", "cats"}
ContentDetails ==
  {[type |-> t, keys |-> {PayloadKey(t)}, payload |-> v] :
     t \in ItemTypes, v \in Payloads}
    \cup {[type |-> t, keys |-> {}, payload |-> ""] : t \in SupportedTypes}

\* the item is a value of its declared type
WellFormed(item) == PayloadKey(item.type) \in item.keys

\* `item.type === T && K in item` holds for one of the four branches
Handled(item) ==
  item.type \in SupportedTypes /\ PayloadKey(item.type) \in item.keys

EmbeddingsByType == [text : BOOLEAN, image : BOOLEAN]

\* what an embedding function resolves to: an array of 0, 1 or 2 embeddings
EmbedResults == {<<>>, <<"e1">>, <<"e1", "e2">>}

Settled(kind, value) == [kind |-> kind, value |-> value]

InitQueryEmbedding ==
  /\ qePc = "call"
  /\ qeItem \in ContentDetails
  /\ qeFuncs \in EmbeddingsByType
  /\ qeInvoked = <<>>
  /\ qeOutcome = Settled("pending", "")
  /\ IdleRRF
  /\ IdleQuery
  /\ IdleBM25
  /\ IdleRetriever
  /\ IdleStrategy
  /\ IdleFs
  /\ IdleStore
  /\ IdleBatch

\* calculateQueryEmbedding(item, embeddings), up to its await or its return
CalculateQueryEmbedding ==
  /\ qePc = "call"
  /\ IF ~Handled(qeItem)
     THEN /\ qeOutcome' = Settled("null", "")
          /\ qePc' = "done"
          /\ UNCHANGED qeInvoked
     ELSE IF ~qeFuncs[ModalityOf(qeItem.type)]
     THEN /\ qeOutcome' =
               Settled("error", IF ModalityOf(qeItem.type) = "text"
                                THEN "No TEXT embedding function provided"
                                ELSE "No IMAGE embedding function provided")
          /\ qePc' = "done"
          /\ UNCHANGED qeInvoked
     ELSE /\ qeInvoked' =
               Append(qeInvoked, [func |-> ModalityOf(qeItem.type),
                                  args |-> <<qeItem.payload>>])
          /\ qePc' = "await"
          /\ UNCHANGED qeOutcome
  /\ UNCHANGED <<qeItem, qeFuncs>>
  /\ UNCHANGED embeddingFrame

\* the embedding function resolved: embeddingResults[0] ?? null
EmbedFuncReturns ==
  /\ qePc = "await"
  /\ \E res \in EmbedResults :
       qeOutcome' = IF res = <<>> THEN Settled("null", "")
                    ELSE Settled("embedding", res[1])
  /\ qePc' = "done"
  /\ UNCHANGED <<qeItem, qeFuncs, qeInvoked>>
  /\ UNCHANGED embeddingFrame

\* the embedding function rejected
EmbedFuncFails ==
  /\ qePc = "await"
  /\ qeOutcome' = Settled("error", "provider error")
  /\ qePc' = "done"
  /\ UNCHANGED <<qeItem, qeFuncs, qeInvoked>>
  /\ UNCHANGED embeddingFrame

NextQueryEmbedding ==
  \/ CalculateQueryEmbedding
  \/ EmbedFuncReturns
  \/ EmbedFuncFails

SpecQueryEmbedding == InitQueryEmbedding /\ [][NextQueryEmbedding]_vars

\* C26: calculateQueryEmbedding dispatches on the content type.  A type
\* other than text, image_url, image_type and image returns null without
\* invoking an embedding function; a handled type whose modality has no
\* embedding function rejects before invoking any; otherwise only the
\* embedding function of that modality is invoked (items that are values of
\* their declared type).
C26_DispatchOnType ==
  (qePc # "call" /\ WellFormed(qeItem)) =>
    /\ qeItem.type \notin SupportedTypes =>
         /\ qePc = "done"
         /\ qeOutcome = Settled("null", "")
         /\ qeInvoked = <<>>
    /\ (qeItem.type \in SupportedTypes
          /\ ~qeFuncs[IF qeItem.type = "text" THEN "text" ELSE "image"]) =>
         /\ qePc = "done"
         /\ qeOutcome.kind = "error"
         /\ qeInvoked = <<>>
    /\ (qeItem.type \in SupportedTypes
          /\ qeFuncs[IF qeItem.type = "text" THEN "text" ELSE "image"]) =>
         /\ Len(qeInvoked) = 1
         /\ qeInvoked[1].func = (IF qeItem.type = "text" THEN "text"
                                 ELSE "image")

\* a text item embedded while an image function was available too
C26_Witness ==
  /\ qePc = "done"
  /\ qeItem.type = "text"
  /\ qeFuncs.text
  /\ qeFuncs.image
  /\ qeInvoked = <<[func |-> "text", args |-> <<"cats">>]>>
  /\ qeOutcome = Settled("embedding", "e1")

----------------------------------------------------------------------------
(* DuplicatesStrategy (ingestion/strategies/DuplicatesStrategy.ts) *)

MaxNodes == 3        \* most nodes of one batch

\* Nodes: a document (no source node) or a chunk of a document.  A source
\* node id can be the empty string.
NodeIds == {"d1", "n1", "n2"}
SourceIds == {<<>>, <<"">>, <<"d1">>}
BaseNodes == [id_ : NodeIds, sourceNode : SourceIds]
Batches == UNION {[1..n -> BaseNodes] : n \in 0..MaxNodes}

\* node.sourceNode?.nodeId || node.id_
RefDocId(node) ==
  IF node.sourceNode # <<>> /\ node.sourceNode[1] # ""
  THEN node.sourceNode[1]
  ELSE node.id_

InitStrategy ==
  /\ dupPc = "call"
  /\ dupNodes \in Batches
  /\ dupStore \in SUBSET {"d1", "n1"}
  /\ dupIdx = 0
  /\ dupSeen = {}
  /\ dupRun = <<>>
  /\ IdleRRF
  /\ IdleQuery
  /\ IdleBM25
  /\ IdleRetriever
  /\ IdleQueryEmbedding
  /\ IdleFs
  /\ IdleStore
  /\ IdleBatch

\* the loop from node i on, up to its next `await this.vectorStore.exists`
\* or to the return: nodes whose reference document id is in seenIds are
\* passed over
NextExists(i) ==
  LET fresh == {k \in i..Len(dupNodes) : RefDocId(dupNodes[k]) \notin dupSeen}
  IN IF fresh = {}
     THEN /\ dupPc' = "returned"
          /\ dupIdx' = Len(dupNodes) + 1
          /\ UNCHANGED dupSeen
     ELSE LET k == CHOOSE j \in fresh : \A l \in fresh : j <= l
          IN /\ dupPc' = "exists"
             /\ dupIdx' = k
             /\ dupSeen' = dupSeen \cup {RefDocId(dupNodes[k])}

\* the transform is called with the batch
Transform ==
  /\ dupPc = "call"
  /\ NextExists(1)
  /\ UNCHANGED <<dupNodes, dupStore, dupRun>>
  /\ UNCHANGED strategyFrame

\* vectorStore.exists(refDocId) resolved
ExistsReturns ==
  /\ dupPc = "exists"
  /\ dupRun' = IF RefDocId(dupNodes[dupIdx]) \in dupStore THEN dupRun
               ELSE Append(dupRun, dupNodes[dupIdx])
  /\ NextExists(dupIdx + 1)
  /\ UNCHANGED <<dupNodes, dupStore>>
  /\ UNCHANGED strategyFrame

\* vectorStore.exists(refDocId) rejected
ExistsFails ==
  /\ dupPc = "exists"
  /\ dupPc' = "failed"
  /\ UNCHANGED <<dupNodes, dupStore, dupIdx, dupSeen, dupRun>>
  /\ UNCHANGED strategyFrame

NextStrategy == Transform \/ ExistsReturns \/ ExistsFails

SpecStrategy == InitStrategy /\ [][NextStrategy]_vars

\* every node of the batch has an id of its own
DistinctNodeIds ==
  \A i, j \in 1..Len(dupNodes) : i # j => dupNodes[i].id_ # dupNodes[j].id_

\* C27: DuplicatesStrategy returns exactly the input nodes whose reference
\* document id (source node id, else the node's own id) does not exist in
\* the vector store, in input order: only nodes of documents that exist in
\* the store are skipped (batches whose nodes have distinct ids).
C27_SkipsOnlyExisting ==
  (dupPc = "returned" /\ DistinctNodeIds) =>
    dupRun = SelectSeq(dupNodes, LAMBDA n : RefDocId(n) \notin dupStore)

----------------------------------------------------------------------------
(* MemoryFsPromises: mkdir and writeFile (src/fs/memory-impl.ts) *)

MaxDepth == 5        \* most parts of a path handed to a call

\* A path argument, split at its slashes: a name, "." and "..".
Parts == {"a", ".", ".."}
RawPaths == UNION {[1..n -> Parts] : n \in 0..MaxDepth}

\* all but the last part
Front(path) == SubSeq(path, 1, Len(path) - 1)

\* normalizePath: "" (left by a doubled slash) and "." are dropped, ".."
\* pops the last part kept
RECURSIVE Resolve(_, _, _)
Resolve(raw, i, parts) ==
  IF i > Len(raw) THEN parts
  ELSE IF raw[i] = "" \/ raw[i] = "." THEN Resolve(raw, i + 1, parts)
  ELSE IF raw[i] = ".."
  THEN Resolve(raw, i + 1, IF parts = <<>> THEN parts ELSE Front(parts))
  ELSE Resolve(raw, i + 1, Append(parts, raw[i]))

normalizePath(raw) == Resolve(raw, 1, <<>>)

\* dirname of a normalised path; the root is its own parent
dirname(path) == IF path = <<>> THEN <<>> ELSE Front(path)

\* the directories ensureParentDirs adds for a missing parent: every prefix
\* of it below the root
Chain(parent) == {SubSeq(parent, 1, n) : n \in 1..Len(parent)}

\* ensureParentDirs(path, recursive): the directories it adds, or "ENOENT"
ensureParentDirs(path, recursive) ==
  IF dirname(path) \in fsDirs THEN [error |-> "", added |-> {}]
  ELSE IF ~recursive THEN [error |-> "ENOENT", added |-> {}]
  ELSE [error |-> "", added |-> Chain(dirname(path))]

InitFs ==
  /\ fsFiles = {}
  /\ fsDirs = {<<>>}
  /\ fsMtimes = {}
  /\ fsResult = "none"
  /\ IdleRRF
  /\ IdleQuery
  /\ IdleBM25
  /\ IdleRetriever
  /\ IdleQueryEmbedding
  /\ IdleStrategy
  /\ IdleStore
  /\ IdleBatch

\* mkdir(pathLike, options)
Mkdir ==
  /\ \E raw \in RawPaths, recursive \in BOOLEAN :
       LET path == normalizePath(raw)
           parents == ensureParentDirs(path, recursive)
       IN IF path = <<>>
          THEN fsResult' = "ok" /\ UNCHANGED <<fsFiles, fsDirs, fsMtimes>>
          ELSE IF path \in fsFiles
          THEN fsResult' = "ENOTDIR"
                 /\ UNCHANGED <<fsFiles, fsDirs, fsMtimes>>
          ELSE IF parents.error # ""
          THEN fsResult' = parents.error
                 /\ UNCHANGED <<fsFiles, fsDirs, fsMtimes>>
          ELSE /\ fsDirs' = fsDirs \cup parents.added \cup {path}
               /\ fsMtimes' = fsMtimes \cup parents.added \cup {path}
               /\ fsResult' = "ok"
               /\ UNCHANGED fsFiles
  /\ UNCHANGED fsFrame

\* writeFile(pathLike, data, options)
WriteFile ==
  /\ \E raw \in RawPaths :
       LET path == normalizePath(raw)
           parents == ensureParentDirs(path, TRUE)
       IN IF path = <<>>
          THEN fsResult' = "EISDIR" /\ UNCHANGED <<fsFiles, fsDirs, fsMtimes>>
          ELSE IF path \in fsDirs \cup parents.added
          THEN /\ fsDirs' = fsDirs \cup parents.added
               /\ fsMtimes' = fsMtimes \cup parents.added
               /\ fsResult' = "EISDIR"
               /\ UNCHANGED fsFiles
          ELSE /\ fsDirs' = fsDirs \cup parents.added
               /\ fsFiles' = fsFiles \cup {path}
               /\ fsMtimes' = fsMtimes \cup parents.added \cup {path}
               /\ fsResult' = "ok"
  /\ UNCHANGED fsFrame

NextFs == Mkdir \/ WriteFile

SpecFs == InitFs /\ [][NextFs]_vars

\* C28: after any sequence of mkdir and writeFile calls, successful or
\* failing, no path is both a file and a directory, and the parent path of
\* every file and of every directory is a directory.
C28_TreeShape ==
  /\ fsFiles \cap fsDirs = {}
  /\ \A path \in fsFiles \cup fsDirs : dirname(path) \in fsDirs

----------------------------------------------------------------------------
(* Concurrent calls on one LibSQLVectorStore: ensureInitialized *)

MaxCalls == 3        \* most calls in flight on one instance

\* methods that await ensureInitialized first (add: of a non-empty list)
StoreMethods == {"add", "delete", "query"}

\* whether ensureInitialized skips checkSchema: `if (!this.initialized)`
SchemaKnown == lsInitialized

InitStore ==
  /\ lsInitialized = FALSE
  /\ lsCalls \in UNION {[1..n -> StoreMethods] : n \in 1..MaxCalls}
  /\ lsPc = [c \in 1..Len(lsCalls) |-> "start"]
  /\ lsSchemaRuns = 0
  /\ IdleRRF
  /\ IdleQuery
  /\ IdleBM25
  /\ IdleRetriever
  /\ IdleQueryEmbedding
  /\ IdleStrategy
  /\ IdleFs
  /\ IdleBatch

\* a call runs up to the await of ensureInitialized: it goes on at once
\* when the instance is initialized and starts checkSchema when not
CallStarts ==
  /\ \E c \in 1..Len(lsCalls) :
       /\ lsPc[c] = "start"
       /\ IF SchemaKnown
          THEN /\ lsPc' = [lsPc EXCEPT ![c] = "running"]
               /\ UNCHANGED lsSchemaRuns
          ELSE /\ lsPc' = [lsPc EXCEPT ![c] = "checkSchema"]
               /\ lsSchemaRuns' = lsSchemaRuns + 1
  /\ UNCHANGED <<lsInitialized, lsCalls>>
  /\ UNCHANGED storeFrame

\* checkSchema of a call resolved: this.initialized = true
CheckSchemaResolves ==
  /\ \E c \in 1..Len(lsCalls) :
       /\ lsPc[c] = "checkSchema"
       /\ lsPc' = [lsPc EXCEPT ![c] = "running"]
  /\ lsInitialized' = TRUE
  /\ UNCHANGED <<lsCalls, lsSchemaRuns>>
  /\ UNCHANGED storeFrame

\* CREATE TABLE of a call's checkSchema rejected: the call rejects
CheckSchemaRejects ==
  /\ \E c \in 1..Len(lsCalls) :
       /\ lsPc[c] = "checkSchema"
       /\ lsPc' = [lsPc EXCEPT ![c] = "failed"]
  /\ UNCHANGED <<lsInitialized, lsCalls, lsSchemaRuns>>
  /\ UNCHANGED storeFrame

\* the rest of a call ran and the call settled
CallSettles ==
  /\ \E c \in 1..Len(lsCalls) :
       /\ lsPc[c] = "running"
       /\ lsPc' = [lsPc EXCEPT ![c] = "settled"]
  /\ UNCHANGED <<lsInitialized, lsCalls, lsSchemaRuns>>
  /\ UNCHANGED storeFrame

NextStore ==
  \/ CallStarts
  \/ CheckSchemaResolves
  \/ CheckSchemaRejects
  \/ CallSettles

SpecStore == InitStore /\ [][NextStore]_vars

\* C29: for one LibSQLVectorStore instance checkSchema is executed at most
\* once, also when several add, query or delete calls are started before
\* the first of them has finished initializing.
C29_SchemaSetupOnce == lsSchemaRuns <= 1

----------------------------------------------------------------------------
(* batchEmbeddings (embeddings/base.ts) *)

MaxValues == 4       \* most values of one call
MaxChunkSize == 3    \* largest chunkSize

Values == {"x", "y"}

\* the embedding a well-behaved embedFunc computes for a value
EmbeddingOf(v) == <<"embedding of", v>>

\* the batch is sent only at the last value
FlushAt_m(i, j) == j = Len(beValues)

\* with curBatch filled from value i to value j, the loop calls embedFunc:
\* `i === queue.length - 1 || curBatch.length === chunkSize`
FlushAt(i, j) == j = Len(beValues) \/ j - i + 1 = beChunkSize

InitBatch ==
  /\ bePc = "call"
  /\ beValues \in UNION {[1..n -> Values] : n \in 0..MaxValues}
  /\ beChunkSize \in 0..MaxChunkSize
  /\ beI = 0
  /\ beCurBatch = <<>>
  /\ beBatches = <<>>
  /\ beResult = <<>>
  /\ IdleRRF
  /\ IdleQuery
  /\ IdleBM25
  /\ IdleRetriever
  /\ IdleQueryEmbedding
  /\ IdleStrategy
  /\ IdleFs
  /\ IdleStore

\* the loop from value i on, curBatch being empty, up to its next
\* `await embedFunc(curBatch)` or to the return
RunLoop(i) ==
  IF i > Len(beValues)
  THEN /\ bePc' = "returned"
       /\ beI' = Len(beValues)
       /\ beCurBatch' = <<>>
       /\ UNCHANGED beBatches
  ELSE LET j == CHOOSE k \in i..Len(beValues) :
                  FlushAt(i, k) /\ \A l \in i..(k - 1) : ~FlushAt(i, l)
       IN /\ bePc' = "embed"
          /\ beI' = j
          /\ beCurBatch' = SubSeq(beValues, i, j)
          /\ beBatches' = Append(beBatches, SubSeq(beValues, i, j))

\* batchEmbeddings(values, embedFunc, chunkSize) is called
BatchEmbeddings ==
  /\ bePc = "call"
  /\ RunLoop(1)
  /\ UNCHANGED <<beValues, beChunkSize, beResult>>
  /\ UNCHANGED batchFrame

\* embedFunc resolved: resultEmbeddings.push(...embeddings) and
\* curBatch.length = 0
BatchResolves ==
  /\ bePc = "embed"
  /\ beResult' = beResult \o
                   [k \in 1..Len(beCurBatch) |-> EmbeddingOf(beCurBatch[k])]
  /\ RunLoop(beI + 1)
  /\ UNCHANGED <<beValues, beChunkSize>>
  /\ UNCHANGED batchFrame

\* embedFunc rejected
BatchRejects ==
  /\ bePc = "embed"
  /\ bePc' = "failed"
  /\ UNCHANGED <<beValues, beChunkSize, beI, beCurBatch, beBatches, beResult>>
  /\ UNCHANGED batchFrame

NextBatch == BatchEmbeddings \/ BatchResolves \/ BatchRejects

SpecBatch == InitBatch /\ [][NextBatch]_vars

\* the batches laid end to end
RECURSIVE Flatten(_)
Flatten(batches) ==
  IF batches = <<>> THEN <<>> ELSE Head(batches) \o Flatten(Tail(batches))

\* C30: for chunkSize >= 1, batchEmbeddings calls the embedding function on
\* consecutive batches of at most chunkSize values, every input value in
\* exactly one batch, never with an empty batch, and returns the embeddings
\* concatenated in input order.
C30_Batches ==
  beChunkSize >= 1 =>
    /\ \A k \in 1..Len(beBatches) :
         Len(beBatches[k]) >= 1 /\ Len(beBatches[k]) <= beChunkSize
    /\ Flatten(beBatches) = SubSeq(beValues, 1, Len(Flatten(beBatches)))
    /\ bePc = "returned" =>
         /\ Flatten(beBatches) = beValues
         /\ beResult = [k \in 1..Len(beValues) |-> EmbeddingOf(beValues[k])]

\* four values embedded with chunkSize 3: a batch of three, then a batch of
\* one
C30_Witness ==
  /\ bePc = "returned"
  /\ beChunkSize = 3
  /\ Len(beBatches) = 2
  /\ Len(beBatches[1]) = 3
  /\ Len(beBatches[2]) = 1
  /\ beBatches[1][1] # beBatches[2][1]

====
